---- MODULE Spec2Model ----
(***************************************************************************)
(* hok-viz: the text-to-state parser (src/src/parser.py, MatchParser).     *)
(*                                                                         *)
(* A text is a sequence of lines, a line a sequence of characters.  A      *)
(* character is a one-element token: ASCII characters stand for            *)
(* themselves, a CJK character is written by its pinyin (the module's      *)
(* strings are ASCII only), full-width punctuation is written "fw_...".    *)
(* Every keyword of the parser is defined once below, with the original    *)
(* text in its comment.                                                    *)
(*                                                                         *)
(* Fractions (hp, mana) are kept in hundredths: the value N / 100.0 is the *)
(* integer N over the fixed denominator FracDen, 1.0 is FracDen.           *)
(* Coordinates are kept in hundredths too (CoordDen).                      *)
(***************************************************************************)
EXTENDS Integers, Sequences, FiniteSets, TLC

(***************************************************************************)
(* Characters and keywords                                                 *)
(***************************************************************************)
Digits == {"0", "1", "2", "3", "4", "5", "6", "7", "8", "9"}
Whitespace == {" ", "\t"}

FwComma == "fw_comma"      \* ，
FwColon == "fw_colon"      \* ：
FwSemi  == "fw_semi"       \* ；
FwStop  == "fw_stop"       \* 。
FwLP    == "fw_lp"         \* （
FwRP    == "fw_rp"         \* ）
FwDun   == "fw_dun"        \* 、

\* the section names
Sec ==
    [ DiTu |-> <<"di", "tu", "xin_msg", "xi_info">>,                           \* 地图信息
      ZhengTi |-> <<"zheng", "ti", "qing", "kuang">>,                          \* 整体情况
      ZongTi |-> <<"zong", "ti", "tai", "shi_power">>,                         \* 总体态势
      WanJia |-> <<"wan", "jia", "qing", "kuang">>,                            \* 玩家情况
      WoFangYX |-> <<"wo", "fang", "ying", "xiong", "zhuang", "tai">>,         \* 我方英雄状态
      KeJian |-> <<"shi_view", "ye", "ke", "jian", "de", "di2", "fang", "ying", "xiong">>, \* 视野可见的敌方英雄
      BuKeJian |-> <<"shi_view", "ye", "bu", "ke", "jian", "de", "di2", "fang", "ying", "xiong">>, \* 视野不可见的敌方英雄
      ZhenWang |-> <<"zhen", "wang", "ying", "xiong">>,                        \* 阵亡英雄
      TaBing |-> <<"fang2", "yu_def", "ta", "yu_and", "bing", "xian", "zhuang", "tai">>, \* 防御塔与兵线状态
      YeGuai |-> <<"ye", "guai", "zhuang", "tai">> ]                           \* 野怪状态

\* the phrases the parser looks for, and those of the texts it is given
Kw ==
    [ WoFang |-> <<"wo", "fang">>,                                             \* 我方
      DiFang |-> <<"di2", "fang">>,                                            \* 敌方
      LanFang |-> <<"lan", "fang">>,                                           \* 蓝方
      HongFang |-> <<"hong", "fang">>,                                         \* 红方
      YouXiJieDuan |-> <<"you_play", "xi_play", "jie", "duan">>,               \* 游戏阶段
      Fen |-> <<"fen">>,                                                       \* 分
      Miao |-> <<"miao">>,                                                     \* 秒
      WoRenTou |-> <<"wo", "fang", "ren", "tou", "shu">>,                      \* 我方人头数
      DiRenTou |-> <<"di2", "fang", "ren", "tou", "shu">>,                     \* 敌方人头数
      WoJingJi |-> <<"wo", "fang", "zong", "jing", "ji_eco">>,                 \* 我方总经济
      DiJingJi |-> <<"di2", "fang", "zong", "jing", "ji_eco">>,                \* 敌方总经济
      Shi |-> <<"shi_is">>,                                                    \* 是
      Lu |-> <<"lu">>,                                                         \* 路
      Ji |-> <<"ji_lvl">>,                                                     \* 级
      YiZhenWang |-> <<"yi_done", "zhen", "wang">>,                            \* 已阵亡
      HaiYou |-> <<"hai", "you">>,                                             \* 还有
      MiaoFuHuo |-> <<"miao", "fu", "huo">>,                                   \* 秒复活
      XueLiang |-> <<"xue", "liang">>,                                         \* 血量
      LanLiang |-> <<"lan", "liang">>,                                         \* 蓝量
      ZuoBiao |-> <<"zuo", "biao">>,                                           \* 坐标
      JiSha |-> <<"ji_hit", "sha", "fw_colon">>,                               \* 击杀：
      ZhuGong |-> <<"fw_comma", "zhu_help", "gong", "fw_colon">>,              \* ，助攻：
      SiWang |-> <<"fw_comma", "si", "wang", "fw_colon">>,                     \* ，死亡：
      DangQianJingJi |-> <<"dang", "qian", "jing", "ji_eco", "fw_colon">>,     \* 当前经济：
      YiChuZhuangBei |-> <<"yi_done", "chu", "zhuang2", "bei", "fw_colon">>,   \* 已出装备：
      BaoJunBuff |-> <<"bao", "jun", "b", "u", "f", "f">>,                     \* 暴君buff
      MeiYouDaZhao |-> <<"mei", "you", "da", "zhao">>,                         \* 没有大招
      FangYuTa |-> <<"fang2", "yu_def", "ta">>,                                \* 防御塔
      BeiTuiDao |-> <<"fang2", "yu_def", "ta", "bei_by", "tui", "dao">>,       \* 防御塔被推到
      YiTa |-> <<"yi_one", "ta">>,                                             \* 一塔
      ErTa |-> <<"er", "ta">>,                                                 \* 二塔
      GaoDiTa |-> <<"gao", "di", "ta">>,                                       \* 高地塔
      ShuiJing |-> <<"shui", "jing_crystal">>,                                 \* 水晶
      ShengYuXueLiang |-> <<"sheng", "yu_rest", "xue", "liang">>,              \* 剩余血量
      WeiXieBingXian |-> <<"zui", "jin", "de", "wei_threat", "xie", "bing", "xian", "wei">>, \* 最近的威胁兵线为
      ShuLiang |-> <<"shu", "liang">>,                                         \* 数量
      ShangLu |-> <<"shang", "lu">>,                                           \* 上路
      ZhongLu |-> <<"zhong", "lu">>,                                           \* 中路
      XiaLu |-> <<"xia", "lu">>,                                               \* 下路
      BuCunZai |-> <<"bu", "cun", "zai">>,                                     \* 不存在
      CunZai |-> <<"cun", "zai">>,                                             \* 存在
      MiaoHouShuaXin |-> <<"miao", "hou", "shua", "xin_new">>,                 \* 秒后刷新
      ZhuZai |-> <<"zhu_main", "zai_rule">>,                                   \* 主宰
      BaoJun |-> <<"bao", "jun">>,                                             \* 暴君
      FengBao |-> <<"feng", "bao", "long", "wang_king">>,                      \* 风暴龙王
      WoLan |-> <<"wo", "fang", "lan", "b", "u", "f", "f">>,                   \* 我方蓝buff
      DiLan |-> <<"di2", "fang", "lan", "b", "u", "f", "f">>,                  \* 敌方蓝buff
      WoHong |-> <<"wo", "fang", "hong", "b", "u", "f", "f">>,                 \* 我方红buff
      DiHong |-> <<"di2", "fang", "hong", "b", "u", "f", "f">>,                \* 敌方红buff
      XiaoBing |-> <<"xiao", "bing">>,                                         \* 小兵
      HeXin |-> <<"he", "xin", "ye", "guai">> ]                                \* 核心野怪


(***************************************************************************)
(* Python's str operations, on sequences of characters                     *)
(***************************************************************************)
Min(a, b) == IF a < b THEN a ELSE b
Max(a, b) == IF a > b THEN a ELSE b

\* sub occurs in s at position p (1-based)
IsAt(s, p, sub) ==
    /\ p >= 1
    /\ p + Len(sub) - 1 <= Len(s)
    /\ \A i \in 1..Len(sub) : s[p + i - 1] = sub[i]

\* str.find from position p on: the first position of sub in s, 0 when there is none
RECURSIVE FindFrom(_, _, _)
FindFrom(s, sub, p) ==
    IF p + Len(sub) - 1 > Len(s) THEN 0
    ELSE IF IsAt(s, p, sub) THEN p
    ELSE FindFrom(s, sub, p + 1)

find(s, sub) == FindFrom(s, sub, 1)

\* sub in s
Contains(s, sub) == find(s, sub) # 0

StartsWith(s, sub) == IsAt(s, 1, sub)
EndsWith(s, sub) == Len(sub) <= Len(s) /\ IsAt(s, Len(s) - Len(sub) + 1, sub)

\* s[a:b] with 1-based inclusive bounds; empty when a > b
Slice(s, a, b) == IF a > b THEN <<>> ELSE SubSeq(s, a, b)

\* str.strip(chars): the characters of cs removed from both ends
StripChars(s, cs) ==
    LET keep == {i \in 1..Len(s) : s[i] \notin cs}
    IN  IF keep = {} THEN <<>>
        ELSE LET a == CHOOSE i \in keep : \A j \in keep : i <= j
                 b == CHOOSE i \in keep : \A j \in keep : i >= j
             IN  SubSeq(s, a, b)

\* str.strip()
strip(s) == StripChars(s, Whitespace)

\* str.split(sep), sep a non-empty string
RECURSIVE split(_, _)
split(s, sep) ==
    LET p == find(s, sep)
    IN  IF p = 0 THEN <<s>>
        ELSE <<Slice(s, 1, p - 1)>> \o split(Slice(s, p + Len(sep), Len(s)), sep)

\* str.zfill(width)
RECURSIVE zfill(_, _)
zfill(s, width) == IF Len(s) >= width THEN s ELSE zfill(<<"0">> \o s, width)

DigitVal(c) ==
    CASE c = "0" -> 0 [] c = "1" -> 1 [] c = "2" -> 2 [] c = "3" -> 3 [] c = "4" -> 4
      [] c = "5" -> 5 [] c = "6" -> 6 [] c = "7" -> 7 [] c = "8" -> 8 [] c = "9" -> 9

\* int(s) for a non-empty run of digits
RECURSIVE int(_)
int(s) == IF Len(s) = 0 THEN 0
          ELSE 10 * int(SubSeq(s, 1, Len(s) - 1)) + DigitVal(s[Len(s)])

FracDen == 100
CoordDen == 100

\* float(s) for s over digits, "." and "-" (what the patterns [\d\.-]+ can capture):
\* ok is FALSE where Python raises ValueError; v is the value in 1/CoordDen.
float(s) ==
    LET neg  == Len(s) > 0 /\ s[1] = "-"
        body == IF neg THEN Slice(s, 2, Len(s)) ELSE s
        dot  == find(body, <<".">>)
        ip   == IF dot = 0 THEN body ELSE Slice(body, 1, dot - 1)
        fp   == IF dot = 0 THEN <<>> ELSE Slice(body, dot + 1, Len(body))
        isDigits(t) == \A i \in 1..Len(t) : t[i] \in Digits
        ok   == isDigits(ip) /\ isDigits(fp) /\ Len(ip) + Len(fp) > 0
        fp2  == SubSeq(fp \o <<"0", "0">>, 1, 2)
        mag  == int(ip) * CoordDen + int(fp2)
    IN  [ok |-> ok, v |-> IF ~ok THEN 0 ELSE IF neg THEN 0 - mag ELSE mag]

(***************************************************************************)
(* Python's re, for the patterns the parser uses.  A pattern is a sequence *)
(* of items; an item is                                                    *)
(*   lit   the literal string lits[1]                                      *)
(*   alt   one of the literal strings lits, tried in order: (a|b)          *)
(*   one   one character of the class: [...]                               *)
(*   plus  one or more characters of the class, greedy: [...]+             *)
(*   star  zero or more characters of the class, greedy: [...]*            *)
(*   lazy  any characters, as few as possible: .*?                         *)
(* A class is the set cs, or its complement when neg.  g is the number of  *)
(* the capture group wrapping the item, 0 for none.  Matching backtracks   *)
(* in re's order: the first alternative, the longest (greedy) or shortest  *)
(* (lazy) repetition first.                                                *)
(***************************************************************************)
Lit(s)         == [t |-> "lit",  lits |-> <<s>>, cs |-> {}, neg |-> FALSE, g |-> 0]
Alt(ls, g)     == [t |-> "alt",  lits |-> ls,    cs |-> {}, neg |-> FALSE, g |-> g]
One(cs)        == [t |-> "one",  lits |-> <<>>,  cs |-> cs, neg |-> FALSE, g |-> 0]
Plus(cs, g)    == [t |-> "plus", lits |-> <<>>,  cs |-> cs, neg |-> FALSE, g |-> g]
NotPlus(cs, g) == [t |-> "plus", lits |-> <<>>,  cs |-> cs, neg |-> TRUE,  g |-> g]
Star(cs)       == [t |-> "star", lits |-> <<>>,  cs |-> cs, neg |-> FALSE, g |-> 0]
Lazy(g)        == [t |-> "lazy", lits |-> <<>>,  cs |-> {}, neg |-> FALSE, g |-> g]

NoMatch == [ok |-> FALSE, caps |-> <<>>, b |-> 0, e |-> 0]

InClass(c, it) == (c \in it.cs) # it.neg

\* the length of the run of class characters of s from p on
RECURSIVE Run(_, _, _)
Run(s, p, it) == IF p <= Len(s) /\ InClass(s[p], it) THEN 1 + Run(s, p + 1, it) ELSE 0

\* group g spans s[a .. b-1]
Cap(caps, g, a, b) == IF g = 0 THEN caps ELSE [caps EXCEPT ![g] = <<a, b>>]

RECURSIVE MatchAt(_, _, _, _, _)
RECURSIVE TryAlt(_, _, _, _, _, _)
RECURSIVE TryGreedy(_, _, _, _, _, _, _)
RECURSIVE TryLazy(_, _, _, _, _, _)

\* items k.. of pattern re matched against s from position p on
MatchAt(re, k, s, p, caps) ==
    IF k > Len(re) THEN [ok |-> TRUE, caps |-> caps, b |-> 0, e |-> p]
    ELSE LET it == re[k] IN
         CASE it.t = "lit"  -> IF IsAt(s, p, it.lits[1])
                               THEN MatchAt(re, k + 1, s, p + Len(it.lits[1]), caps)
                               ELSE NoMatch
           [] it.t = "alt"  -> TryAlt(re, k, s, p, caps, 1)
           [] it.t = "one"  -> IF p <= Len(s) /\ InClass(s[p], it)
                               THEN MatchAt(re, k + 1, s, p + 1, caps)
                               ELSE NoMatch
           [] it.t = "plus" -> TryGreedy(re, k, s, p, caps, Run(s, p, it), 1)
           [] it.t = "star" -> TryGreedy(re, k, s, p, caps, Run(s, p, it), 0)
           [] it.t = "lazy" -> TryLazy(re, k, s, p, caps, 0)

TryAlt(re, k, s, p, caps, i) ==
    IF i > Len(re[k].lits) THEN NoMatch
    ELSE LET l == re[k].lits[i]
             r == IF IsAt(s, p, l)
                  THEN MatchAt(re, k + 1, s, p + Len(l), Cap(caps, re[k].g, p, p + Len(l)))
                  ELSE NoMatch
         IN  IF r.ok THEN r ELSE TryAlt(re, k, s, p, caps, i + 1)

TryGreedy(re, k, s, p, caps, n, least) ==
    IF n < least THEN NoMatch
    ELSE LET r == MatchAt(re, k + 1, s, p + n, Cap(caps, re[k].g, p, p + n))
         IN  IF r.ok THEN r ELSE TryGreedy(re, k, s, p, caps, n - 1, least)

TryLazy(re, k, s, p, caps, n) ==
    IF p + n > Len(s) + 1 THEN NoMatch
    ELSE LET r == MatchAt(re, k + 1, s, p + n, Cap(caps, re[k].g, p, p + n))
         IN  IF r.ok THEN r ELSE TryLazy(re, k, s, p, caps, n + 1)

NumGroups(re) == LET gs == {re[k].g : k \in 1..Len(re)}
                 IN  CHOOSE g \in gs : \A h \in gs : h <= g

NoCaps(re) == [g \in 1..NumGroups(re) |-> <<0, 0>>]

\* re.match(re, s): at the start of s only
ReMatch(re, s) == [MatchAt(re, 1, s, 1, NoCaps(re)) EXCEPT !.b = 1]

\* re.search(re, s) from position p on: the leftmost match
RECURSIVE SearchFrom(_, _, _)
SearchFrom(re, s, p) ==
    IF p > Len(s) + 1 THEN NoMatch
    ELSE LET r == MatchAt(re, 1, s, p, NoCaps(re))
         IN  IF r.ok THEN [r EXCEPT !.b = p] ELSE SearchFrom(re, s, p + 1)

ReSearch(re, s) == SearchFrom(re, s, 1)

\* match.group(g)
Group(s, m, g) == Slice(s, m.caps[g][1], m.caps[g][2] - 1)

\* re.findall(re, s): the successive non-overlapping matches, left to right
\* (every pattern here matches at least one character)
RECURSIVE FindAllFrom(_, _, _)
FindAllFrom(re, s, p) ==
    LET r == SearchFrom(re, s, p)
    IN  IF ~r.ok THEN <<>> ELSE <<r>> \o FindAllFrom(re, s, r.e)

\* match.group(): the whole match
Whole(s, m) == Slice(s, m.b, m.e - 1)

(***************************************************************************)
(* The parser's patterns                                                   *)
(***************************************************************************)
NumChars == Digits \cup {".", "-"}                 \* [\d\.-]
TowerChars == {"fang2", "yu_def", "ta"}            \* the characters of 防御塔

\* (蓝方|红方)([^防御塔\d]+)(一塔|二塔|高地塔)[（\(]([\d\.-]+)[,，]\s*([\d\.-]+)[）\)]
ReStaticTower == <<Alt(<<Kw.LanFang, Kw.HongFang>>, 1), NotPlus(TowerChars \cup Digits, 2),
                   Alt(<<Kw.YiTa, Kw.ErTa, Kw.GaoDiTa>>, 3), One({FwLP, "("}),
                   Plus(NumChars, 4), One({",", FwComma}), Star(Whitespace),
                   Plus(NumChars, 5), One({FwRP, ")"})>>
\* (\d+)分(\d+)秒
ReTime == <<Plus(Digits, 1), Lit(Kw.Fen), Plus(Digits, 2), Lit(Kw.Miao)>>
\* \d+
ReDigits == <<Plus(Digits, 0)>>
\* <([^>]+)>
ReTag == <<Lit(<<"<">>), NotPlus({">"}, 1), Lit(<<">">>)>>
\* 是(我方|敌方)([^，]+)
ReRole == <<Lit(Kw.Shi), Alt(<<Kw.WoFang, Kw.DiFang>>, 1), NotPlus({FwComma}, 2)>>
\* (\d+)级
ReLevel == <<Plus(Digits, 1), Lit(Kw.Ji)>>
\* 还有(\d+)秒复活
ReRespawn == <<Lit(Kw.HaiYou), Plus(Digits, 1), Lit(Kw.MiaoFuHuo)>>
\* 血量.*?（(\d+)%）
ReHeroHp == <<Lit(Kw.XueLiang), Lazy(0), Lit(<<FwLP>>), Plus(Digits, 1), Lit(<<"%", FwRP>>)>>
\* 蓝量(\d+)%
ReMana == <<Lit(Kw.LanLiang), Plus(Digits, 1), Lit(<<"%">>)>>
\* 坐标[（\(]([\d\.-]+)，([\d\.-]+)[）\)]
ReCoord == <<Lit(Kw.ZuoBiao), One({FwLP, "("}), Plus(NumChars, 1), Lit(<<FwComma>>),
             Plus(NumChars, 2), One({FwRP, ")"})>>
\* 击杀：(\d+)，助攻：(\d+)，死亡：(\d+)
ReKda == <<Lit(Kw.JiSha), Plus(Digits, 1), Lit(Kw.ZhuGong), Plus(Digits, 2),
           Lit(Kw.SiWang), Plus(Digits, 3)>>
\* 当前经济：(\d+)
ReGold == <<Lit(Kw.DangQianJingJi), Plus(Digits, 1)>>
\* (我方|敌方)([^防御塔]+)防御塔被推到
ReTowerContext == <<Alt(<<Kw.WoFang, Kw.DiFang>>, 1), NotPlus(TowerChars, 2), Lit(Kw.BeiTuiDao)>>
\* 最近的威胁兵线为(.*?)，.*?坐标[（\(]([\d\.-]+)，([\d\.-]+)[）\)].*?数量(\d+).*?血量(\d+)%
ReMinion == <<Lit(Kw.WeiXieBingXian), Lazy(1), Lit(<<FwComma>>), Lazy(0), Lit(Kw.ZuoBiao),
              One({FwLP, "("}), Plus(NumChars, 2), Lit(<<FwComma>>), Plus(NumChars, 3),
              One({FwRP, ")"}), Lazy(0), Lit(Kw.ShuLiang), Plus(Digits, 4), Lazy(0),
              Lit(Kw.XueLiang), Plus(Digits, 5), Lit(<<"%">>)>>
\* (我方|敌方)([^防御塔]+)防御塔被推到(.*?)，.*?坐标[（\(]([\d\.-]+)，([\d\.-]+)[）\)].*?剩余血量(\d+)%
ReTower == <<Alt(<<Kw.WoFang, Kw.DiFang>>, 1), NotPlus(TowerChars, 2), Lit(Kw.BeiTuiDao),
             Lazy(3), Lit(<<FwComma>>), Lazy(0), Lit(Kw.ZuoBiao), One({FwLP, "("}),
             Plus(NumChars, 4), Lit(<<FwComma>>), Plus(NumChars, 5), One({FwRP, ")"}),
             Lazy(0), Lit(Kw.ShengYuXueLiang), Plus(Digits, 6), Lit(<<"%">>)>>
\* (\d+)秒后刷新
ReMonsterRespawn == <<Plus(Digits, 1), Lit(Kw.MiaoHouShuaXin)>>
\* 血量(\d+)%
ReMonsterHp == <<Lit(Kw.XueLiang), Plus(Digits, 1), Lit(<<"%">>)>>

(***************************************************************************)
(* The state model (the dataclasses of parser.py).  Optional values are    *)
(* sequences: None is <<>>, a position is <<x, y>>, a countdown is <<n>>.  *)
(***************************************************************************)
None == <<>>

\* MatchState(time_str="00:00", blue_kills=0, red_kills=0, blue_gold=0, red_gold=0)
MatchState == [time_str |-> <<"0", "0", ":", "0", "0">>,
               blue_kills |-> 0, red_kills |-> 0, blue_gold |-> 0, red_gold |-> 0,
               heroes |-> <<>>, towers |-> <<>>, minions |-> <<>>, monsters |-> <<>>]

\* HeroStatus(name, player_name, team, role="", level=1, hp_percent=1.0, mana_percent=1.0)
HeroStatus(name, player_name, team) ==
    [name |-> name, player_name |-> player_name, team |-> team, role |-> <<>>,
     level |-> 1, hp_percent |-> FracDen, mana_percent |-> FracDen, is_dead |-> FALSE,
     respawn_time |-> 0, position |-> None, kda |-> <<0, 0, 0>>, gold |-> 0,
     items |-> <<>>, has_ult |-> FALSE, buffs |-> <<>>]

TowerStatus(team, lane, tower_type, hp_percent, position) ==
    [team |-> team, lane |-> lane, tower_type |-> tower_type, hp_percent |-> hp_percent,
     position |-> position, is_destroyed |-> FALSE]

MinionStatus(team, lane, position, count, hp_percent, minion_type) ==
    [team |-> team, lane |-> lane, position |-> position, count |-> count,
     hp_percent |-> hp_percent, minion_type |-> minion_type]

MonsterStatus(name, position, hp_percent, exists, description, respawn_time) ==
    [name |-> name, position |-> position, hp_percent |-> hp_percent, exists |-> exists,
     description |-> description, respawn_time |-> respawn_time]

\* The outcome of a step of parse: exc is "" or the exception that left it.
Ok(ms) == [exc |-> "", ms |-> ms]
Raise(e, ms) == [exc |-> e, ms |-> ms]

(***************************************************************************)
(* parse, section 整体情况: the match clock                                *)
(***************************************************************************)
\* faulty variant: the seconds not zero-padded
ParseOverallLineUnpadded(line, ms) ==
    IF Contains(line, Kw.YouXiJieDuan)
    THEN LET m == ReSearch(ReTime, line)
         IN  IF m.ok
             THEN Ok([ms EXCEPT !.time_str = Group(line, m, 1) \o <<":">> \o Group(line, m, 2)])
             ELSE Ok(ms)
    ELSE Ok(ms)

ParseOverallLine(line, ms) ==
    IF Contains(line, Kw.YouXiJieDuan)
    THEN LET m == ReSearch(ReTime, line)
         IN  IF m.ok
             THEN Ok([ms EXCEPT !.time_str =
                         Group(line, m, 1) \o <<":">> \o zfill(Group(line, m, 2), 2)])
             ELSE Ok(ms)
    ELSE Ok(ms)

(***************************************************************************)
(* parse, section 总体态势: kill and gold totals                           *)
(***************************************************************************)
\* int(re.search(r'\d+', p.split('：')[1]).group())
ExtractCount(p) ==
    LET fs == split(p, <<FwColon>>)
    IN  IF Len(fs) < 2 THEN [exc |-> "IndexError", v |-> 0]
        ELSE LET m == ReSearch(ReDigits, fs[2])
             IN  IF ~m.ok THEN [exc |-> "AttributeError", v |-> 0]
                 ELSE [exc |-> "", v |-> int(Whole(fs[2], m))]

\* for p in parts: if kwBlue in p: ms.<blue> = ...  elif kwRed in p: ms.<red> = ...
RECURSIVE AggregateParts(_, _, _, _, _, _, _)
AggregateParts(parts, i, ms, kwBlue, blue, kwRed, red) ==
    IF i > Len(parts) THEN Ok(ms)
    ELSE LET p == parts[i]
             fld == IF Contains(p, kwBlue) THEN blue
                    ELSE IF Contains(p, kwRed) THEN red ELSE ""
         IN  IF fld = "" THEN AggregateParts(parts, i + 1, ms, kwBlue, blue, kwRed, red)
             ELSE LET c == ExtractCount(p)
                  IN  IF c.exc # "" THEN Raise(c.exc, ms)
                      ELSE AggregateParts(parts, i + 1, [ms EXCEPT ![fld] = c.v],
                                          kwBlue, blue, kwRed, red)

ParseAggregateLine(line, ms) ==
    IF Contains(line, Kw.WoRenTou)
    THEN AggregateParts(split(line, <<FwComma>>), 1, ms,
                        Kw.WoRenTou, "blue_kills", Kw.DiRenTou, "red_kills")
    ELSE IF Contains(line, Kw.WoJingJi)
    THEN AggregateParts(split(line, <<FwComma>>), 1, ms,
                        Kw.WoJingJi, "blue_gold", Kw.DiJingJi, "red_gold")
    ELSE Ok(ms)

(***************************************************************************)
(* _parse_hero_line                                                        *)
(***************************************************************************)
\* [i.strip() for i in items_part.split('、')]
StripEach(xs) == [i \in 1..Len(xs) |-> strip(xs[i])]

\* int(m.group(g)) when m = re.search(re, s) matched, dflt (the field as it was) otherwise
IntGroupOr(re, s, g, dflt) ==
    LET m == ReSearch(re, s) IN IF m.ok THEN int(Group(s, m, g)) ELSE dflt

\* role, level
HeroRoleLevel(line, hero) ==
    LET role_match == ReSearch(ReRole, line)
    IN  [hero EXCEPT
            !.role = IF Contains(line, Kw.Shi) /\ Contains(line, Kw.Lu) /\ role_match.ok
                     THEN Group(line, role_match, 2) ELSE @,
            !.level = IntGroupOr(ReLevel, line, 1, @)]

\* faulty variant: the percentages stored without the division by 100.0
HeroVitalsUnscaled(line, hero) ==
    IF Contains(line, Kw.YiZhenWang)
    THEN LET respawn_match == ReSearch(ReRespawn, line)
         IN  [hero EXCEPT
                 !.is_dead = TRUE,
                 !.respawn_time = IF respawn_match.ok
                                  THEN int(Group(line, respawn_match, 1)) ELSE @,
                 !.hp_percent = IF respawn_match.ok THEN 0 ELSE @]
    ELSE [hero EXCEPT
             !.hp_percent = IntGroupOr(ReHeroHp, line, 1, @) * FracDen,
             !.mana_percent = IntGroupOr(ReMana, line, 1, @) * FracDen]

\* the dead/alive branch: is_dead, respawn_time, hp_percent, mana_percent
HeroVitals(line, hero) ==
    IF Contains(line, Kw.YiZhenWang)
    THEN LET respawn_match == ReSearch(ReRespawn, line)
         IN  [hero EXCEPT
                 !.is_dead = TRUE,
                 !.respawn_time = IF respawn_match.ok
                                  THEN int(Group(line, respawn_match, 1)) ELSE @,
                 !.hp_percent = IF respawn_match.ok THEN 0 ELSE @]
    ELSE [hero EXCEPT
             !.hp_percent = IntGroupOr(ReHeroHp, line, 1, @),      \* int(..) / 100.0
             !.mana_percent = IntGroupOr(ReMana, line, 1, @)]      \* int(..) / 100.0

\* faulty variant: the triple kept in the order of the text: kills, assists, deaths
HeroKdaTextOrder(line, hero) ==
    LET kda_match == ReSearch(ReKda, line)
    IN  [hero EXCEPT
            !.kda = IF kda_match.ok
                    THEN <<int(Group(line, kda_match, 1)), int(Group(line, kda_match, 2)),
                           int(Group(line, kda_match, 3))>>
                    ELSE @]

\* hero.kda = (int(group(1)), int(group(3)), int(group(2)))   # K D A
HeroKda(line, hero) ==
    LET kda_match == ReSearch(ReKda, line)
    IN  [hero EXCEPT
            !.kda = IF kda_match.ok
                    THEN <<int(Group(line, kda_match, 1)), int(Group(line, kda_match, 3)),
                           int(Group(line, kda_match, 2))>>
                    ELSE @]

\* gold, items, buffs
HeroGoldItemsBuffs(line, hero) ==
    [hero EXCEPT
        !.gold = IntGroupOr(ReGold, line, 1, @),
        !.items = IF Contains(line, Kw.YiChuZhuangBei)
                  THEN StripEach(split(split(split(line, Kw.YiChuZhuangBei)[2],
                                             <<FwComma>>)[1], <<FwDun>>))
                  ELSE @,
        !.buffs = IF Contains(line, Kw.BaoJunBuff) THEN Append(@, Kw.BaoJun) ELSE @]

\* faulty variant: has_ult left at the dataclass default unless the line says 没有大招
HeroUltLeftDefault(line, hero) ==
    [hero EXCEPT !.has_ult = IF Contains(line, Kw.MeiYouDaZhao) THEN FALSE ELSE @]

\* has_ult: False when the line says 没有大招, True otherwise
HeroUlt(line, hero) ==
    [hero EXCEPT !.has_ult = IF Contains(line, Kw.MeiYouDaZhao) THEN FALSE
                             ELSE ~Contains(line, Kw.MeiYouDaZhao)]

\* the fields of the hero in the order the source sets them; position is set by the
\* caller, between the vitals and the kda, because float() may raise there
HeroBeforePosition(line, hero) == HeroVitals(line, HeroRoleLevel(line, hero))
HeroAfterPosition(line, hero) == HeroUlt(line, HeroGoldItemsBuffs(line, HeroKda(line, hero)))

\* faulty variant: the hero name taken from the third token, not the last
HeroOfTagThird(parts) ==
    HeroStatus(parts[Min(3, Len(parts))], parts[2],
               IF parts[1] = Kw.WoFang THEN "blue" ELSE "red")

\* team_str, player_name, hero_name of the tag's tokens; hero = HeroStatus(...)
HeroOfTag(parts) ==
    HeroStatus(parts[Len(parts)], parts[2],
               IF parts[1] = Kw.WoFang THEN "blue" ELSE "red")

\* faulty variant: a hero already in the list is replaced, not listed again
_parse_hero_lineOncePerName(line, ms) ==
    LET name_match == ReMatch(ReTag, line)
        parts == split(Group(line, name_match, 1), <<"-">>)
        coord_match == ReSearch(ReCoord, line)
        x == float(Group(line, coord_match, 1))
        y == float(Group(line, coord_match, 2))
        hero == HeroAfterPosition(line,
                  [HeroBeforePosition(line, HeroOfTag(parts))
                   EXCEPT !.position = IF coord_match.ok THEN <<x.v, y.v>> ELSE @])
        others == SelectSeq(ms.heroes, LAMBDA h : h.name # hero.name)
    IN  IF ~name_match.ok THEN Ok(ms)
        ELSE IF Len(parts) < 2 THEN Raise("IndexError", ms)
        ELSE IF coord_match.ok /\ (~x.ok \/ ~y.ok) THEN Raise("ValueError", ms)
        ELSE Ok([ms EXCEPT !.heroes = Append(others, hero)])

_parse_hero_line(line, ms) ==
    LET name_match == ReMatch(ReTag, line)
        parts == split(Group(line, name_match, 1), <<"-">>)
        coord_match == ReSearch(ReCoord, line)
        x == float(Group(line, coord_match, 1))
        y == float(Group(line, coord_match, 2))
    IN  IF ~name_match.ok THEN Ok(ms)
        ELSE IF Len(parts) < 2 THEN Raise("IndexError", ms)                \* parts[1]
        ELSE IF coord_match.ok /\ (~x.ok \/ ~y.ok) THEN Raise("ValueError", ms)  \* float()
        ELSE Ok([ms EXCEPT !.heroes = Append(@,
                   HeroAfterPosition(line,
                     [HeroBeforePosition(line, HeroOfTag(parts))
                      EXCEPT !.position = IF coord_match.ok THEN <<x.v, y.v>> ELSE @]))])

(***************************************************************************)
(* _parse_tower_minion_line                                                *)
(***************************************************************************)
towers_map == <<Kw.YiTa, Kw.ErTa, Kw.GaoDiTa>>

\* faulty variant: the push target compared with the tier label for equality, not containment
FrontierIdxExact(current_tower_name, i) ==
    IF \E k \in 1..Len(towers_map) : current_tower_name = towers_map[k]
    THEN CHOOSE k \in 1..Len(towers_map) : current_tower_name = towers_map[k]
    ELSE 0

\* the index of the first tier label contained in the push target, 0 for none
\* (frontier_idx, -1 in the source)
RECURSIVE FrontierIdx(_, _)
FrontierIdx(current_tower_name, i) ==
    IF i > Len(towers_map) THEN 0
    ELSE IF Contains(current_tower_name, towers_map[i]) THEN i
    ELSE FrontierIdx(current_tower_name, i + 1)

\* the team that owns the tower the segment describes: "blue", "red" or None
ContextTeam(seg) ==
    LET tower_match_for_context == ReSearch(ReTowerContext, seg)
    IN  IF tower_match_for_context.ok
        THEN IF Group(seg, tower_match_for_context, 1) = Kw.WoFang THEN "blue" ELSE "red"
        ELSE "None"

\* faulty variant: the wave given the side of the tower it threatens
MinionTeamOfTower(context_team) == IF context_team = "blue" THEN "blue" ELSE "red"

\* the wave threatening a tower belongs to the other team; "red" without a context
MinionTeam(context_team) ==
    IF context_team = "blue" THEN "red"
    ELSE IF context_team = "red" THEN "blue"
    ELSE "red"

\* the minion half of a segment
SegmentMinion(line, seg, ms) ==
    IF ~Contains(seg, Kw.WeiXieBingXian) THEN Ok(ms)
    ELSE LET minion_team == MinionTeam(ContextTeam(seg))
             lane == strip(split(line, <<FwColon>>)[1])
             m_match == ReSearch(ReMinion, seg)
             x == float(Group(seg, m_match, 2))
             y == float(Group(seg, m_match, 3))
         IN  IF ~m_match.ok THEN Ok(ms)
             ELSE IF ~x.ok \/ ~y.ok THEN Raise("ValueError", ms)
             ELSE Ok([ms EXCEPT !.minions = Append(ms.minions,
                        MinionStatus(minion_team, lane, <<x.v, y.v>>,
                                     int(Group(seg, m_match, 4)),
                                     int(Group(seg, m_match, 5)),
                                     Group(seg, m_match, 1)))])

\* the tower half of a segment: only the frontier tower is added
SegmentTower(seg, ms) ==
    LET tower_match == ReSearch(ReTower, seg)
    IN  IF ~tower_match.ok THEN Ok(ms)
        ELSE
        LET team_str == IF Group(seg, tower_match, 1) = Kw.WoFang THEN "blue" ELSE "red"
            lane_str == strip(Group(seg, tower_match, 2))
            current_tower_name == strip(Group(seg, tower_match, 3))
            hp == int(Group(seg, tower_match, 6))
            frontier_idx == FrontierIdx(current_tower_name, 1)
            x == float(Group(seg, tower_match, 4))
            y == float(Group(seg, tower_match, 5))
        IN  IF frontier_idx = 0 THEN Ok(ms)
            ELSE IF ~x.ok \/ ~y.ok THEN Raise("ValueError", ms)
            ELSE Ok([ms EXCEPT !.towers = Append(ms.towers,
                       TowerStatus(team_str, lane_str, towers_map[frontier_idx], hp,
                                   <<x.v, y.v>>))])

RECURSIVE TowerMinionSegments(_, _, _, _)
TowerMinionSegments(line, segments, i, ms) ==
    IF i > Len(segments) THEN Ok(ms)
    ELSE LET r1 == SegmentMinion(line, segments[i], ms)
         IN  IF r1.exc # "" THEN r1
             ELSE LET r2 == SegmentTower(segments[i], r1.ms)
                  IN  IF r2.exc # "" THEN r2
                      ELSE TowerMinionSegments(line, segments, i + 1, r2.ms)

_parse_tower_minion_line(line, ms, static_towers) ==
    TowerMinionSegments(line, split(line, <<FwSemi>>), 1, ms)

(***************************************************************************)
(* parse, section 野怪状态: neutral objectives                             *)
(***************************************************************************)
known_monsters == <<Kw.ZhuZai, Kw.BaoJun, Kw.FengBao, Kw.WoLan, Kw.DiLan, Kw.WoHong, Kw.DiHong>>

\* faulty variant: the known name that comes first in the segment
RECURSIVE CurrentMonsterInTextOrder(_, _)
CurrentMonsterInTextOrder(seg, i) ==
    IF i > Len(seg) THEN None
    ELSE IF \E k \in DOMAIN known_monsters : IsAt(seg, i, known_monsters[k])
    THEN known_monsters[CHOOSE k \in DOMAIN known_monsters : IsAt(seg, i, known_monsters[k])]
    ELSE CurrentMonsterInTextOrder(seg, i + 1)

\* the first known name, in list order, that the segment contains; None for none
RECURSIVE CurrentMonster(_, _)
CurrentMonster(seg, i) ==
    IF i > Len(known_monsters) THEN None
    ELSE IF Contains(seg, known_monsters[i]) THEN known_monsters[i]
    ELSE CurrentMonster(seg, i + 1)

\* current_exists: False with 不存在, True with 存在 or 血量
MonsterExists(seg) ==
    ~Contains(seg, Kw.BuCunZai) /\ (Contains(seg, Kw.CunZai) \/ Contains(seg, Kw.XueLiang))

\* faulty variant: no hp assumed for an objective that exists with no percentage
MonsterHpAsStated(seg, current_exists) ==
    LET hp_match == ReSearch(ReMonsterHp, seg)
    IN  IF hp_match.ok THEN int(Group(seg, hp_match, 1)) ELSE 0

\* current_hp: the percentage over 100.0, else 1.0 if the objective exists, else 0.0
MonsterHp(seg, current_exists) ==
    LET hp_match == ReSearch(ReMonsterHp, seg)
    IN  IF hp_match.ok THEN int(Group(seg, hp_match, 1))
        ELSE IF current_exists THEN FracDen
        ELSE 0

MonsterSegment(raw, ms) ==
    LET seg == StripChars(strip(raw), {FwStop})
    IN  IF seg = <<>> THEN Ok(ms)
        ELSE IF ~(Contains(seg, <<FwColon>>)
                  /\ (Contains(seg, Kw.BuCunZai) \/ Contains(seg, Kw.CunZai)
                      \/ Contains(seg, Kw.XueLiang)))
        THEN Ok(ms)
        ELSE
        LET current_monster == CurrentMonster(seg, 1)
            gone == Contains(seg, Kw.BuCunZai)
            r_match == ReSearch(ReMonsterRespawn, seg)
            current_exists == MonsterExists(seg)
            current_respawn == IF gone /\ r_match.ok THEN <<int(Group(seg, r_match, 1))>>
                               ELSE None
            c_match == ReSearch(ReCoord, seg)
            x == float(Group(seg, c_match, 1))
            y == float(Group(seg, c_match, 2))
            current_hp == MonsterHp(seg, current_exists)
        IN  IF current_monster = None THEN Ok(ms)
            ELSE IF c_match.ok /\ (~x.ok \/ ~y.ok) THEN Raise("ValueError", ms)
            ELSE Ok([ms EXCEPT !.monsters = Append(ms.monsters,
                       MonsterStatus(current_monster,
                                     IF c_match.ok THEN <<x.v, y.v>> ELSE <<0, 0>>,
                                     current_hp, current_exists, seg, current_respawn))])

RECURSIVE MonsterSegments(_, _, _)
MonsterSegments(segments, i, ms) ==
    IF i > Len(segments) THEN Ok(ms)
    ELSE LET r == MonsterSegment(segments[i], ms)
         IN  IF r.exc # "" THEN r ELSE MonsterSegments(segments, i + 1, r.ms)

ParseMonsterLine(line, ms) == MonsterSegments(split(line, <<FwSemi>>), 1, ms)

(***************************************************************************)
(* parse: the pre-pass over [地图信息] and the main pass                   *)
(***************************************************************************)
NoSection == <<"None">>                     \* current_section = None

Header(name) == <<"[">> \o name \o <<"]">>

\* static_towers[(team_code, lane, t_type)] = (x, y) for every match of the line
RECURSIVE StaticMatches(_, _, _, _)
StaticMatches(line, matches, k, static) ==
    IF k > Len(matches) THEN [exc |-> "", static |-> static]
    ELSE LET m == matches[k]
             team_code == IF Group(line, m, 1) = Kw.LanFang THEN "blue" ELSE "red"
             x == float(Group(line, m, 4))
             y == float(Group(line, m, 5))
             key == <<team_code, Group(line, m, 2), Group(line, m, 3)>>
         IN  IF ~x.ok \/ ~y.ok THEN [exc |-> "ValueError", static |-> static]
             ELSE StaticMatches(line, matches, k + 1,
                                (key :> <<x.v, y.v>>) @@ static)

\* the first loop of parse, from line i on, under section sec
RECURSIVE FirstPassFrom(_, _, _, _)
FirstPassFrom(lines, i, sec, static) ==
    IF i > Len(lines) THEN [exc |-> "", static |-> static]
    ELSE IF StartsWith(strip(lines[i]), Header(Sec.DiTu))
    THEN FirstPassFrom(lines, i + 1, Sec.DiTu, static)
    ELSE IF StartsWith(strip(lines[i]), <<"[">>)
    THEN FirstPassFrom(lines, i + 1, NoSection, static)
    ELSE IF sec = Sec.DiTu
    THEN LET r == StaticMatches(lines[i], FindAllFrom(ReStaticTower, lines[i], 1), 1, static)
         IN  IF r.exc # "" THEN r ELSE FirstPassFrom(lines, i + 1, sec, r.static)
    ELSE FirstPassFrom(lines, i + 1, sec, static)

HeroSections == {Sec.WanJia, Sec.WoFangYX, Sec.KeJian, Sec.BuKeJian, Sec.ZhenWang}

\* line.startswith('[') and line.endswith(']')
IsHeader(line) == StartsWith(line, <<"[">>) /\ EndsWith(line, <<"]">>)

(***************************************************************************)
(* Input texts.  A text is described line by line; LineText writes a line  *)
(* description out as the characters the parser reads, in the formats the  *)
(* comments of parser.py quote.  An optional number is <<>> or <<n>>.      *)
(***************************************************************************)
DigitChar(d) == CASE d = 0 -> "0" [] d = 1 -> "1" [] d = 2 -> "2" [] d = 3 -> "3"
                  [] d = 4 -> "4" [] d = 5 -> "5" [] d = 6 -> "6" [] d = 7 -> "7"
                  [] d = 8 -> "8" [] d = 9 -> "9"

\* the decimal digits of a natural number
RECURSIVE Dec(_)
Dec(n) == IF n < 10 THEN <<DigitChar(n)>> ELSE Dec(n \div 10) \o <<DigitChar(n % 10)>>

RECURSIVE Join(_, _)
Join(xs, sep) == IF Len(xs) = 0 THEN <<>>
                 ELSE IF Len(xs) = 1 THEN xs[1]
                 ELSE xs[1] \o sep \o Join(Tail(xs), sep)

NameLianPo == <<"lian", "po">>              \* 廉颇
NameDaJi   == <<"da", "ji_name">>           \* 妲己
NameWanJia == <<"wan", "jia">>              \* 玩家
NameItemA  == <<"hong", "lian_lotus">>      \* 红莲 (an item)
NameItemB  == <<"ba", "zhe">>               \* 霸者 (an item)

\* coordinates as written in the text: good ones, and runs of digits, dots and
\* minus signs that are not numbers
CoordText(form) ==
    CASE form = "none" -> <<>>
      [] form = "ok"   -> Kw.ZuoBiao \o <<FwLP, "-", "3", "0", ".", "5", FwComma, "1", "0", FwRP>>
      [] form = "ok2"  -> Kw.ZuoBiao \o <<FwLP, "1", "8", ".", "2", FwComma, "-", "7", FwRP>>
      [] form = "bad"  -> Kw.ZuoBiao \o <<FwLP, "1", ".", "2", ".", "3", FwComma, "4", FwRP>>
      [] form = "dash" -> Kw.ZuoBiao \o <<FwLP, "-", FwComma, "4", FwRP>>

\* the position float() gives for a good form, in 1/CoordDen
CoordValue(form) == IF form = "ok" THEN <<-3050, 1000>> ELSE <<1820, -700>>

GoodCoords == {"ok", "ok2"}
BadCoords == {"bad", "dash"}

\* --- [整体情况]: 游戏阶段：13分4秒
OverallText(d) ==
    (IF d.stage THEN Kw.YouXiJieDuan \o <<FwColon>> ELSE <<>>)
    \o (IF d.clock THEN Dec(d.m) \o Kw.Fen \o Dec(d.s) \o Kw.Miao ELSE <<"x">>)

\* --- [总体态势]: 我方人头数：5，敌方人头数：3
AggKeyword(kw) == CASE kw = "blue_kills" -> Kw.WoRenTou [] kw = "red_kills" -> Kw.DiRenTou
                    [] kw = "blue_gold" -> Kw.WoJingJi [] kw = "red_gold" -> Kw.DiJingJi

ClauseText(c) ==
    CASE c.form = "ok"       -> AggKeyword(c.kw) \o <<FwColon>> \o Dec(c.v)
      [] c.form = "nocolon"  -> AggKeyword(c.kw) \o Dec(c.v)
      [] c.form = "nodigits" -> AggKeyword(c.kw) \o <<FwColon, "x">>

AggText(d) == Join([i \in 1..Len(d.clauses) |-> ClauseText(d.clauses[i])], <<FwComma>>)

\* --- hero sections: <我方-玩家-廉颇>是我方上路，14级，血量3000（45%），蓝量30%，坐标（..），
\*     击杀：2，助攻：5，死亡：1，当前经济：3200，已出装备：红莲、霸者，暴君buff，没有大招
TagText(tag) ==
    CASE tag = "ally3"    -> <<"<">> \o Kw.WoFang \o <<"-">> \o NameWanJia \o <<"-">> \o NameLianPo \o <<">">>
      [] tag = "enemy4"   -> <<"<">> \o Kw.DiFang \o <<"-">> \o NameWanJia \o <<"-", "2", "-">> \o NameDaJi \o <<">">>
      [] tag = "ally2"    -> <<"<">> \o Kw.WoFang \o <<"-">> \o NameLianPo \o <<">">>
      [] tag = "enemy2"   -> <<"<">> \o Kw.DiFang \o <<"-">> \o NameLianPo \o <<">">>
      [] tag = "nohyphen" -> <<"<">> \o NameLianPo \o <<">">>
      [] tag = "unclosed" -> <<"<">> \o Kw.WoFang \o <<"-">> \o NameWanJia \o <<"-">> \o NameLianPo

VitalsText(v) ==
    (IF v.dead THEN Kw.YiZhenWang \o <<FwComma>> ELSE <<>>)
    \o (IF v.cd # <<>> THEN Kw.HaiYou \o Dec(v.cd[1]) \o Kw.MiaoFuHuo \o <<FwComma>> ELSE <<>>)
    \o (IF v.hp # <<>>
        THEN Kw.XueLiang \o <<"3", "0", "0">> \o <<FwLP>> \o Dec(v.hp[1]) \o <<"%", FwRP, FwComma>>
        ELSE <<>>)
    \o (IF v.mana # <<>> THEN Kw.LanLiang \o Dec(v.mana[1]) \o <<"%", FwComma>> ELSE <<>>)

KdaText(k) ==
    IF k = <<>> THEN <<>>
    ELSE Kw.JiSha \o Dec(k[1]) \o Kw.ZhuGong \o Dec(k[2]) \o Kw.SiWang \o Dec(k[3]) \o <<FwComma>>

HeroText(d) ==
    TagText(d.tag)
    \o (IF d.detail THEN Kw.Shi \o Kw.WoFang \o Kw.ShangLu \o <<FwComma, "1", "4">> \o Kw.Ji \o <<FwComma>>
        ELSE <<>>)
    \o (IF d.ult = "early" THEN Kw.MeiYouDaZhao \o <<FwComma>> ELSE <<>>)
    \o VitalsText(d.vit)
    \o (IF d.coord = "none" THEN <<>> ELSE CoordText(d.coord) \o <<FwComma>>)
    \o KdaText(d.kda)
    \o (IF d.detail
        THEN Kw.DangQianJingJi \o <<"3", "2", "0", "0", FwComma>> \o Kw.YiChuZhuangBei
             \o NameItemA \o <<FwDun>> \o NameItemB \o <<FwComma>> \o Kw.BaoJunBuff \o <<FwComma>>
        ELSE <<>>)
    \o (IF d.ult = "late" THEN Kw.MeiYouDaZhao ELSE <<>>)

\* --- [防御塔与兵线状态]: 上路：我方上路防御塔被推到上路一塔，坐标（..），剩余血量31%，
\*     最近的威胁兵线为小兵，坐标（..），数量3，血量80%；敌方上路防御塔...
LaneText(lane) == CASE lane = "top" -> Kw.ShangLu [] lane = "mid" -> Kw.ZhongLu
                    [] lane = "bot" -> Kw.XiaLu

TargetText(lane, target) ==
    IF target = 0 THEN Kw.ShuiJing ELSE LaneText(lane) \o towers_map[target]

OwnerText(owner) == IF owner = "blue" THEN Kw.WoFang ELSE Kw.DiFang

SegmentText(lane, g) ==
    (IF g.owner = "none" THEN <<>>
     ELSE OwnerText(g.owner) \o LaneText(lane) \o Kw.BeiTuiDao \o TargetText(lane, g.target)
          \o <<FwComma>> \o CoordText(g.coord) \o <<FwComma>> \o Kw.ShengYuXueLiang
          \o Dec(g.hp) \o <<"%">>)
    \o (IF g.wave = <<>> THEN <<>>
        ELSE (IF g.owner = "none" THEN <<>> ELSE <<FwComma>>)
             \o Kw.WeiXieBingXian \o Kw.XiaoBing \o <<FwComma>> \o CoordText(g.wcoord)
             \o <<FwComma>> \o Kw.ShuLiang \o <<"3", FwComma>> \o Kw.XueLiang
             \o Dec(g.wave[1]) \o <<"%">>)

TowerLineText(d) ==
    LaneText(d.lane) \o <<FwColon>>
    \o Join([i \in 1..Len(d.segs) |-> SegmentText(d.lane, d.segs[i])], <<FwSemi>>)

\* --- [野怪状态]: 核心野怪：主宰，坐标（..）：不存在，29秒后刷新；暴君，坐标（..）：存在血量100%
\*     and 存活可见野怪：我方蓝buff，坐标（..），血量87%。；敌方蓝buff，...
MonsterSegText(g) ==
    (IF "lead" \in DOMAIN g THEN known_monsters[g.lead] \o <<FwComma>> ELSE <<>>)
    \o known_monsters[g.name]
    \o (IF g.coord = "none" THEN <<>> ELSE <<FwComma>> \o CoordText(g.coord))
    \o (IF g.colon THEN <<FwColon>> ELSE <<FwComma>>)
    \o (CASE g.state = "gone"   -> Kw.BuCunZai
          [] g.state = "exists" -> Kw.CunZai
          [] g.state = "hp"     -> <<>>)
    \o (IF g.cd # <<>> THEN <<FwComma>> \o Dec(g.cd[1]) \o Kw.MiaoHouShuaXin ELSE <<>>)
    \o (IF g.hp # <<>> THEN Kw.XueLiang \o Dec(g.hp[1]) \o <<"%">> ELSE <<>>)

MonsterLineText(d) ==
    (IF d.prefix THEN Kw.HeXin \o <<FwColon>> ELSE <<>>)
    \o Join([i \in 1..Len(d.segs) |-> MonsterSegText(d.segs[i])], <<FwStop, FwSemi>>)

\* --- [地图信息]: 我方防御塔坐标为：蓝方上路一塔(-52.4, 28.7)、红方中路高地塔(1,2)
MapLineText(d) ==
    Kw.LanFang \o Kw.ShangLu \o Kw.YiTa \o <<"(", "-", "5", "2", ".", "4", ",", " ", "2", "8", ")">>
    \o <<FwDun>> \o Kw.HongFang \o Kw.ZhongLu \o Kw.GaoDiTa
    \o (IF d.good THEN <<"(", "1", ",", "2", ")">> ELSE <<"(", "1", "-", ",", "2", ")">>)

LineText(d) ==
    CASE d.k = "header"  -> Header(d.sec)
                            \o (IF d.trail = <<>> THEN <<>> ELSE <<" ">> \o OverallText(d.trail[1]))
      [] d.k = "blank"   -> <<" ">>
      [] d.k = "noise"   -> <<"x">>
      [] d.k = "overall" -> OverallText(d)
      [] d.k = "agg"     -> AggText(d)
      [] d.k = "hero"    -> HeroText(d)
      [] d.k = "tower"   -> TowerLineText(d)
      [] d.k = "monster" -> MonsterLineText(d)
      [] d.k = "map"     -> MapLineText(d)

\* text.split('\n') of the text described by ds
Lines(ds) == [i \in 1..Len(ds) |-> LineText(ds[i])]

(***************************************************************************)
(* The texts parse is run on                                               *)
(***************************************************************************)
MaxClauses == 2        \* sub-clauses on a line of [总体态势]
MaxSegments == 2       \* segments on a line of [防御塔与兵线状态] or [野怪状态]

\* the sequences x1, x2 .. xn with 1 <= n <= max, x1 from first, the others from rest
RECURSIVE SeqsUpTo(_, _, _)
SeqsUpTo(first, rest, max) ==
    IF max <= 1 THEN {<<x>> : x \in first}
    ELSE LET shorter == SeqsUpTo(first, rest, max - 1)
         IN  shorter \cup {Append(xs, y) : xs \in {z \in shorter : Len(z) = max - 1}, y \in rest}

HeaderLine(sec) == [k |-> "header", sec |-> sec, trail |-> <<>>]

\* a bracketed name with the text of a line of [整体情况] after it on the same line
TrailedHeader(sec, o) == [k |-> "header", sec |-> sec, trail |-> <<o>>]

OverallLines ==
    {[k |-> "overall", stage |-> st, clock |-> TRUE, m |-> m, s |-> sec] :
        st \in BOOLEAN, m \in {3, 13}, sec \in {4, 45, 0}}
    \cup {[k |-> "overall", stage |-> st, clock |-> FALSE, m |-> 0, s |-> 0] : st \in BOOLEAN}

AggFields == {"blue_kills", "red_kills", "blue_gold", "red_gold"}

AggClauses ==
    {[kw |-> kw, form |-> "ok", v |-> v] : kw \in AggFields, v \in {3, 15}}
    \cup {[kw |-> kw, form |-> f, v |-> 3] : kw \in AggFields, f \in {"nocolon", "nodigits"}}

AggLines == {[k |-> "agg", clauses |-> cs] : cs \in SeqsUpTo(AggClauses, AggClauses, MaxClauses)}

Vit(dead, cd, hp, mana) == [dead |-> dead, cd |-> cd, hp |-> hp, mana |-> mana]

HeroVitalForms ==
    { Vit(FALSE, <<>>, <<45>>, <<30>>),      \* alive, hp and mana stated
      Vit(FALSE, <<>>, <<0>>, <<>>),         \* alive, 0% hp
      Vit(FALSE, <<>>, <<150>>, <<120>>),    \* alive, percentages above 100
      Vit(FALSE, <<>>, <<>>, <<>>),          \* nothing stated
      Vit(TRUE, <<12>>, <<>>, <<>>),         \* dead, with a countdown
      Vit(TRUE, <<>>, <<>>, <<>>),           \* dead, no countdown
      Vit(TRUE, <<7>>, <<0>>, <<50>>) }      \* dead, hp and mana still stated

HeroLines ==
    {[k |-> "hero", tag |-> tag, vit |-> v, coord |-> c, kda |-> kda, ult |-> u, detail |-> d] :
        tag \in {"ally3", "enemy4", "ally2", "nohyphen", "unclosed"}, v \in HeroVitalForms,
        c \in {"none", "ok", "bad"}, kda \in {<<>>, <<2, 5, 1>>},
        u \in {"absent", "early", "late"}, d \in BOOLEAN}

\* the hero lines every hero section is tried with
CoreHeroLines ==
    {h \in HeroLines : h.tag \in {"ally3", "enemy4"} /\ h.coord = "ok" /\ h.detail
                       /\ h.ult # "early" /\ h.kda # <<>>}

Seg(owner, target, coord, hp, wave, wcoord) ==
    [owner |-> owner, target |-> target, coord |-> coord, hp |-> hp, wave |-> wave,
     wcoord |-> wcoord]

\* target 0 is the base (水晶), 1..3 index towers_map
TowerSegs ==
    {Seg(o, t, "ok", 40, w, "ok2") : o \in {"blue", "red"}, t \in 0..3, w \in {<<>>, <<80>>}}
    \cup { Seg("blue", 2, "ok", 150, <<>>, "ok2"),      \* hp above 100
           Seg("red", 1, "ok", 40, <<120>>, "ok2"),     \* wave hp above 100
           Seg("blue", 1, "bad", 40, <<>>, "ok2"),      \* position not a number
           Seg("red", 0, "dash", 40, <<>>, "ok2"),      \* the same, pushed to the base
           Seg("blue", 1, "ok", 40, <<80>>, "bad"),     \* wave position not a number
           Seg("none", 0, "ok", 40, <<80>>, "ok2") }    \* a wave with no tower context

CoreTowerSegs ==
    { Seg("blue", 1, "ok", 40, <<>>, "ok2"), Seg("red", 2, "ok2", 40, <<80>>, "ok"),
      Seg("red", 0, "ok", 40, <<>>, "ok2"),  Seg("blue", 3, "ok2", 40, <<80>>, "ok") }

TowerLines ==
    {[k |-> "tower", lane |-> l, segs |-> ss] :
        l \in {"top", "mid"}, ss \in SeqsUpTo(TowerSegs, CoreTowerSegs, MaxSegments)}

MSeg(name, coord, colon, state, cd, hp) ==
    [name |-> name, coord |-> coord, colon |-> colon, state |-> state, cd |-> cd, hp |-> hp]

\* a segment with the name of another objective written before its own
Led(lead, g) == g @@ [lead |-> lead]

MonsterSegs ==
    {MSeg(n, c, TRUE, "gone", cd, <<>>) : n \in {1, 4}, c \in {"ok", "none"}, cd \in {<<>>, <<29>>}}
    \cup {MSeg(n, c, TRUE, "exists", <<>>, hp) :
            n \in {2, 3}, c \in {"ok", "none"}, hp \in {<<>>, <<87>>, <<150>>}}
    \cup {MSeg(n, "ok", col, "hp", <<>>, <<87>>) : n \in {5, 7}, col \in BOOLEAN}
    \cup { MSeg(6, "bad", TRUE, "exists", <<>>, <<87>>),
           MSeg(1, "ok", TRUE, "gone", <<29>>, <<50>>) }
    \cup {Led(2, MSeg(1, "ok", TRUE, "gone", <<29>>, <<>>)),
          Led(5, MSeg(3, "none", TRUE, "exists", <<>>, <<87>>)),
          Led(1, MSeg(7, "ok", TRUE, "hp", <<>>, <<87>>))}

CoreMonsterSegs ==
    { MSeg(2, "ok", TRUE, "exists", <<>>, <<100>>), MSeg(5, "ok2", FALSE, "hp", <<>>, <<87>>),
      MSeg(1, "ok", TRUE, "gone", <<29>>, <<>>) }

MonsterLines ==
    {[k |-> "monster", prefix |-> pf, segs |-> ss] :
        pf \in BOOLEAN, ss \in SeqsUpTo(MonsterSegs, CoreMonsterSegs, MaxSegments)}

MapLines == {[k |-> "map", good |-> g] : g \in BOOLEAN}

BlankLine == [k |-> "blank"]
NoiseLine == [k |-> "noise"]

\* a section header on its own line, followed by a line of that section
SectionTexts ==
    {<<HeaderLine(Sec.ZhengTi), l>> : l \in OverallLines}
    \cup {<<HeaderLine(Sec.ZongTi), l>> : l \in AggLines}
    \cup {<<HeaderLine(Sec.WoFangYX), l>> : l \in HeroLines}
    \cup {<<HeaderLine(sec), l>> : sec \in HeroSections, l \in CoreHeroLines}
    \cup {<<HeaderLine(Sec.TaBing), l>> : l \in TowerLines}
    \cup {<<HeaderLine(Sec.YeGuai), l>> : l \in MonsterLines}
    \cup {<<HeaderLine(Sec.DiTu), l>> : l \in MapLines}

\* texts with lines outside any section, blank lines and several sections
MixedTexts ==
    {<<NoiseLine, BlankLine, HeaderLine(Sec.DiTu), m, HeaderLine(Sec.ZhengTi), o,
       HeaderLine(Sec.ZhenWang), h>> :
        m \in MapLines, o \in {l \in OverallLines : l.stage /\ l.m = 13 /\ l.s = 4},
        h \in {l \in CoreHeroLines : l.vit.dead /\ l.ult = "late"}}
    \cup {<<TrailedHeader(Sec.ZhengTi, o)>> : o \in {l \in OverallLines : l.stage /\ l.s = 4}}
    \cup {<<HeaderLine(sec), TrailedHeader(Sec.ZongTi, o)>> :
            sec \in {Sec.ZhengTi, Sec.WoFangYX}, o \in {l \in OverallLines : l.stage /\ l.s = 4}}
    \* five lines of one hero under its status section, and one more among the dead
    \cup {<<HeaderLine(Sec.WoFangYX), a, a, a, a, a, HeaderLine(Sec.ZhenWang), d>> :
            a \in {h \in CoreHeroLines : h.tag = "ally3" /\ h.ult = "late"
                                          /\ h.vit = Vit(FALSE, <<>>, <<45>>, <<30>>)},
            d \in {h \in CoreHeroLines : h.tag = "ally3" /\ h.ult = "late"
                                          /\ h.vit = Vit(TRUE, <<12>>, <<>>, <<>>)}}
    \* the static positions of the map, then the towers of the lane they hold a tier of
    \cup {<<HeaderLine(Sec.DiTu), m, HeaderLine(Sec.TaBing),
            [k |-> "tower", lane |-> "mid", segs |-> <<g>>]>> :
            m \in MapLines, g \in CoreTowerSegs}

\* a whole report: every section once, as the generator of these texts writes them
FullReports ==
    {<<HeaderLine(Sec.ZhengTi), o, HeaderLine(Sec.ZongTi), a, HeaderLine(Sec.WoFangYX), h,
       HeaderLine(Sec.TaBing), t, HeaderLine(Sec.YeGuai), mo>> :
        o \in {l \in OverallLines : l.stage /\ l.clock /\ l.m = 13},
        a \in {[k |-> "agg", clauses |-> <<[kw |-> "blue_kills", form |-> "ok", v |-> 15],
                                           [kw |-> "red_kills", form |-> "ok", v |-> 3]>>]},
        h \in {l \in CoreHeroLines : ~l.vit.dead /\ l.tag = "ally3"},
        t \in {[k |-> "tower", lane |-> "top", segs |-> <<g>>] : g \in CoreTowerSegs},
        mo \in {[k |-> "monster", prefix |-> TRUE, segs |-> <<g>>] : g \in CoreMonsterSegs}}

Inputs == SectionTexts \cup MixedTexts \cup FullReports

(***************************************************************************)
(* The state machine: one call of MatchParser.parse(text)                  *)
(***************************************************************************)
VARIABLES
    input,            \* the text, as line descriptions (text.split('\n') is Lines(input))
    pc,               \* "first": before the first loop; "main": in the main loop;
                      \* "done": parse returned match_state; "raised": an exception left parse
    i,                \* the index of the line the main loop is at
    current_section,
    static_towers,
    match_state,
    exc               \* the exception raised, "" for none

\* the renderer side (src/src/renderer.py), idle while parse runs
VARIABLES
    renderer,         \* the MatchRenderer instance the render calls share (self)
    calls,            \* the render calls: the MatchState given, the position in render,
                      \* the draw operations made so far, the exception raised
    overlapped,       \* whether a render call started while another was in progress
    fn                \* a helper of the renderer applied on its own: arguments and result

\* the batch driver (src/src/batch.py), idle unless process_batch runs
VARIABLES
    batch             \* process_batch: the lines of the input file, the index of the line
                      \* the loop is at, count, the files saved, what was printed, and
                      \* (for the record) what became of each line so far

rvars == <<renderer, calls, overlapped, fn, batch>>

pvars == <<input, pc, i, current_section, static_towers, match_state, exc>>

vars == <<input, pc, i, current_section, static_towers, match_state, exc, rvars>>

\* no renderer built, no render call, no helper applied
RendererIdle ==
    /\ renderer = <<>>
    /\ calls = <<>>
    /\ overlapped = FALSE
    /\ fn = <<>>
    /\ batch = <<>>

lines == Lines(input)

Init ==
    /\ input \in Inputs
    /\ pc = "first"
    /\ i = 0
    /\ current_section = NoSection
    /\ static_towers = <<>>
    /\ match_state = MatchState
    /\ exc = ""
    /\ RendererIdle

\* the first loop: the static tower coordinates of [地图信息]
FirstPass ==
    /\ pc = "first"
    /\ LET r == FirstPassFrom(lines, 1, NoSection, <<>>)
       IN  /\ static_towers' = r.static
           /\ exc' = r.exc
           /\ pc' = IF r.exc = "" THEN "main" ELSE "raised"
    /\ i' = 1
    /\ current_section' = NoSection
    /\ UNCHANGED <<rvars, input, match_state>>

AtLine == pc = "main" /\ i <= Len(input)

line == strip(LineText(input[i]))

\* if not line: continue
SkipBlank ==
    /\ AtLine
    /\ line = <<>>
    /\ i' = i + 1
    /\ UNCHANGED <<rvars, input, pc, current_section, static_towers, match_state, exc>>

\* if line.startswith('[') and line.endswith(']'): current_section = line[1:-1]
SwitchSection ==
    /\ AtLine
    /\ line # <<>>
    /\ IsHeader(line)
    /\ current_section' = Slice(line, 2, Len(line) - 1)
    /\ i' = i + 1
    /\ UNCHANGED <<rvars, input, pc, static_towers, match_state, exc>>

\* a line of the section the main loop is in
InSection(secs) ==
    /\ AtLine
    /\ line # <<>>
    /\ ~IsHeader(line)
    /\ current_section \in secs

\* the line handled with outcome r: the next line, or the exception leaves parse
Handled(r) ==
    /\ exc' = r.exc
    /\ pc' = IF r.exc = "" THEN "main" ELSE "raised"
    /\ match_state' = r.ms
    /\ i' = i + 1
    /\ UNCHANGED <<rvars, input, current_section, static_towers>>

OverallLine ==
    /\ InSection({Sec.ZhengTi})
    /\ Handled(ParseOverallLine(line, match_state))

AggregateLine ==
    /\ InSection({Sec.ZongTi})
    /\ Handled(ParseAggregateLine(line, match_state))

\* if line.startswith('<'): self._parse_hero_line(line, match_state)
HeroLine ==
    /\ InSection(HeroSections)
    /\ Handled(IF StartsWith(line, <<"<">>) THEN _parse_hero_line(line, match_state)
               ELSE Ok(match_state))

TowerMinionLine ==
    /\ InSection({Sec.TaBing})
    /\ Handled(_parse_tower_minion_line(line, match_state, static_towers))

MonsterLine ==
    /\ InSection({Sec.YeGuai})
    /\ Handled(ParseMonsterLine(line, match_state))

\* a line under no section, or under a section parse does not read
OtherLine ==
    /\ AtLine
    /\ line # <<>>
    /\ ~IsHeader(line)
    /\ current_section \notin {Sec.ZhengTi, Sec.ZongTi, Sec.TaBing, Sec.YeGuai} \cup HeroSections
    /\ i' = i + 1
    /\ UNCHANGED <<rvars, input, pc, current_section, static_towers, match_state, exc>>

\* return match_state
Return ==
    /\ pc = "main"
    /\ i > Len(input)
    /\ pc' = "done"
    /\ UNCHANGED <<rvars, input, i, current_section, static_towers, match_state, exc>>

Next ==
    \/ FirstPass
    \/ SkipBlank
    \/ SwitchSection
    \/ OverallLine
    \/ AggregateLine
    \/ HeroLine
    \/ TowerMinionLine
    \/ MonsterLine
    \/ OtherLine
    \/ Return

Spec == Init /\ [][Next]_vars

(***************************************************************************)
(* What the text says, read off its description (not through the parser)   *)
(***************************************************************************)
\* the section a line stands in: the name of the last [name] line before it
RECURSIVE SectionBefore(_, _)
SectionBefore(ds, j) ==
    IF j <= 1 THEN NoSection
    ELSE IF ds[j - 1].k = "header" /\ ds[j - 1].trail = <<>> THEN ds[j - 1].sec
    ELSE SectionBefore(ds, j - 1)

\* the indices of the lines of kind k standing in one of the sections secs
LinesOf(ds, k, secs) ==
    SelectSeq([j \in 1..Len(ds) |-> j],
              LAMBDA j : ds[j].k = k /\ SectionBefore(ds, j) \in secs)

\* the hero lines with a closed tag, in text order
StatedHeroes ==
    LET idx == LinesOf(input, "hero", HeroSections)
    IN  SelectSeq([n \in 1..Len(idx) |-> input[idx[n]]], LAMBDA d : d.tag # "unclosed")

\* the segments of the lines of kind k of section sec, each with its lane, in text order
RECURSIVE SegsFrom(_, _, _)
SegsFrom(ds, idx, n) ==
    IF n > Len(idx) THEN <<>>
    ELSE LET d == ds[idx[n]]
         IN  [m \in 1..Len(d.segs) |-> [lane |-> d.lane, seg |-> d.segs[m]]]
             \o SegsFrom(ds, idx, n + 1)

StatedTowerSegs == SegsFrom(input, LinesOf(input, "tower", {Sec.TaBing}), 1)

\* the segments stating that a tower was pushed to one of the three tiers
StatedTowers ==
    SelectSeq(StatedTowerSegs, LAMBDA g : g.seg.owner # "none" /\ g.seg.target \in 1..3)

\* the segments stating a threatening wave
StatedWaves == SelectSeq(StatedTowerSegs, LAMBDA g : g.seg.wave # <<>>)

Returned == pc = "done"

(***************************************************************************)
(* The claims                                                              *)
(***************************************************************************)

\* C1: parse never raises, whatever the text: no exception leaves parse.
C1_NeverRaises == pc # "raised"

\* C2: every Hero of a returned MatchState is either alive with hp > 0 or dead with
\* hp = 0, and its respawn countdown is non-zero only when it is dead.
C2_HeroAliveXorDead ==
    Returned =>
        \A n \in 1..Len(match_state.heroes) :
            LET h == match_state.heroes[n]
            IN  /\ (~h.is_dead /\ h.hp_percent > 0) \/ (h.is_dead /\ h.hp_percent = 0)
                /\ h.respawn_time # 0 => h.is_dead

\* C3: every hp and mana fraction of a returned MatchState (heroes, towers, minion
\* waves, neutral objectives) lies in [0.0, 1.0].
InUnit(f) == 0 <= f /\ f <= FracDen

C3_FractionsInUnit ==
    Returned =>
        /\ \A n \in 1..Len(match_state.heroes) :
               InUnit(match_state.heroes[n].hp_percent)
               /\ InUnit(match_state.heroes[n].mana_percent)
        /\ \A n \in 1..Len(match_state.towers) : InUnit(match_state.towers[n].hp_percent)
        /\ \A n \in 1..Len(match_state.minions) : InUnit(match_state.minions[n].hp_percent)
        /\ \A n \in 1..Len(match_state.monsters) : InUnit(match_state.monsters[n].hp_percent)

\* C4: tower frontier law.  The Towers of a returned MatchState are, in text order,
\* exactly one per segment stating a push to one of the three tiers, with the segment's
\* side, lane, tier, hp fraction and position; a segment pushed to anything else (the
\* base) adds none, and no other tier is added.
ExpectedTower(g) ==
    [team |-> g.seg.owner, lane |-> LaneText(g.lane), tower_type |-> towers_map[g.seg.target],
     hp_percent |-> g.seg.hp, position |-> CoordValue(g.seg.coord), is_destroyed |-> FALSE]

C4_TowerFrontier ==
    Returned =>
        match_state.towers = [n \in 1..Len(StatedTowers) |-> ExpectedTower(StatedTowers[n])]

\* C4 witness: a returned parse of a line with a segment pushed to the base and a
\* segment pushed to a tier, which added one tower.
C4_Witness ==
    /\ Returned
    /\ Len(match_state.towers) = 1
    /\ \E n \in 1..Len(StatedTowerSegs) :
           StatedTowerSegs[n].seg.owner # "none" /\ StatedTowerSegs[n].seg.target = 0
    /\ match_state.towers[1].tower_type = Kw.ErTa

\* C5: minion-wave ownership inversion.  The waves of a returned MatchState are, in
\* text order, one per segment stating a wave; where the segment's tower is ally
\* (blue) the wave is enemy (red), where it is enemy the wave is ally, never the
\* tower's own side.
C5_WaveInversion ==
    Returned =>
        /\ Len(match_state.minions) = Len(StatedWaves)
        /\ \A n \in 1..Len(StatedWaves) :
               LET owner == StatedWaves[n].seg.owner
                   team == match_state.minions[n].team
               IN  /\ owner = "blue" => team = "red"
                   /\ owner = "red" => team = "blue"
                   /\ team # owner

\* C5 witness: a returned parse that recorded an ally wave (threatening an enemy
\* tower) and an enemy wave (threatening an ally tower).
C5_Witness ==
    /\ Returned
    /\ Len(match_state.minions) = 2
    /\ match_state.minions[1].team = "blue" /\ StatedWaves[1].seg.owner = "red"
    /\ match_state.minions[2].team = "red" /\ StatedWaves[2].seg.owner = "blue"

\* C6: ultimate-ready default law.  The Heroes of a returned MatchState are, in text
\* order, one per hero line; has_ult is false where the line says 没有大招 (early or
\* late on the line, dead or alive) and true where it does not.
C6_UltDefault ==
    Returned =>
        /\ Len(match_state.heroes) = Len(StatedHeroes)
        /\ \A n \in 1..Len(StatedHeroes) :
               match_state.heroes[n].has_ult = (StatedHeroes[n].ult = "absent")

\* C6 witness: a returned dead hero, on a line full of other phrases, whose ultimate
\* is ready.
C6_Witness ==
    /\ Returned
    /\ Len(match_state.heroes) = 1
    /\ StatedHeroes[1].ult = "absent" /\ StatedHeroes[1].vit.dead /\ StatedHeroes[1].detail
    /\ match_state.heroes[1].has_ult /\ match_state.heroes[1].is_dead

\* C7: KDA reordering.  A hero line 击杀：K，助攻：A，死亡：D gives kda = (K, D, A); a line
\* without the phrase leaves (0, 0, 0).
C7_KdaReordered ==
    Returned =>
        /\ Len(match_state.heroes) = Len(StatedHeroes)
        /\ \A n \in 1..Len(StatedHeroes) :
               LET said == StatedHeroes[n].kda      \* <<K, A, D>> as written
               IN  match_state.heroes[n].kda =
                       IF said = <<>> THEN <<0, 0, 0>> ELSE <<said[1], said[3], said[2]>>

\* C7 witness: a returned hero whose line stated K=2, A=5, D=1.
C7_Witness ==
    /\ Returned
    /\ Len(match_state.heroes) = 1
    /\ StatedHeroes[1].kda = <<2, 5, 1>>
    /\ match_state.heroes[1].kda = <<2, 1, 5>>

\* C8: a percentage phrase N% gives the fraction N / 100.0: a hero's hp and mana, a
\* tower's remaining hp, a wave's hp, a neutral objective's hp.
\* fraction = value / FracDen, so value * 100 = N * FracDen.
IsPercent(value, N) == value * 100 = N * FracDen

\* the neutral-objective segments of the text, each with the text of the segment as
\* the parser sees it (the section prefix belongs to the first segment of its line)
RECURSIVE MonsterSegsFrom(_, _, _)
MonsterSegsFrom(ds, idx, n) ==
    IF n > Len(idx) THEN <<>>
    ELSE LET d == ds[idx[n]]
         IN  [m \in 1..Len(d.segs) |->
                 [seg |-> d.segs[m],
                  text |-> (IF m = 1 /\ d.prefix THEN Kw.HeXin \o <<FwColon>> ELSE <<>>)
                           \o MonsterSegText(d.segs[m])]]
             \o MonsterSegsFrom(ds, idx, n + 1)

StatedMonsters == MonsterSegsFrom(input, LinesOf(input, "monster", {Sec.YeGuai}), 1)

\* the hp and mana phrases of the n-th hero line are stored as fractions
HeroPercents(n) ==
    LET said == StatedHeroes[n].vit
        h == match_state.heroes[n]
    IN  /\ said.hp # <<>> => IsPercent(h.hp_percent, said.hp[1])
        /\ said.mana # <<>> => IsPercent(h.mana_percent, said.mana[1])

\* the hp phrases of towers, waves and objectives are stored as fractions
OtherPercents ==
        /\ Len(match_state.towers) = Len(StatedTowers)
        /\ \A n \in 1..Len(StatedTowers) :
               IsPercent(match_state.towers[n].hp_percent, StatedTowers[n].seg.hp)
        /\ Len(match_state.minions) = Len(StatedWaves)
        /\ \A n \in 1..Len(StatedWaves) :
               IsPercent(match_state.minions[n].hp_percent, StatedWaves[n].seg.wave[1])
        /\ \A n \in 1..Len(match_state.monsters) : \A k \in 1..Len(StatedMonsters) :
               (match_state.monsters[n].description = StatedMonsters[k].text
                /\ StatedMonsters[k].seg.hp # <<>>)
               => IsPercent(match_state.monsters[n].hp_percent, StatedMonsters[k].seg.hp[1])

\* C8 as stated: the hp and mana phrases of every hero line, of a dead hero too.
C8_EveryHeroPercent ==
    Returned =>
        /\ Len(match_state.heroes) = Len(StatedHeroes)
        /\ \A n \in 1..Len(StatedHeroes) : HeroPercents(n)
        /\ OtherPercents

\* C8 amended: the hp and mana phrases of the lines of living heroes (a line saying
\* 已阵亡 has its hp and mana phrases left unread), and the hp phrases of towers, waves
\* and objectives.
C8_PercentIsFraction ==
    Returned =>
        /\ Len(match_state.heroes) = Len(StatedHeroes)
        /\ \A n \in 1..Len(StatedHeroes) : ~StatedHeroes[n].vit.dead => HeroPercents(n)
        /\ OtherPercents

\* C8 witness: a returned report with a living hero at 45% hp and 30% mana, a tower
\* at 40%, a wave at 80% and an objective at 87%.
C8_Witness ==
    /\ Returned
    /\ Len(match_state.heroes) = 1 /\ Len(match_state.towers) = 1
    /\ Len(match_state.minions) = 1 /\ Len(match_state.monsters) = 1
    /\ StatedHeroes[1].vit = Vit(FALSE, <<>>, <<45>>, <<30>>)
    /\ match_state.heroes[1].hp_percent = 45 /\ match_state.heroes[1].mana_percent = 30
    /\ match_state.towers[1].hp_percent = 40
    /\ match_state.minions[1].hp_percent = 80
    /\ StatedMonsters[1].seg.hp = <<87>> /\ match_state.monsters[1].hp_percent = 87

\* C9: clock extraction.  A line 游戏阶段...M分S秒 in the section [整体情况] (opened by
\* the bracketed name on a line of its own) gives the clock M, a colon, S padded with
\* zeros to two digits; without such a line the clock stays 00:00.
TwoDigits(n) == IF n < 10 THEN <<"0">> \o Dec(n) ELSE Dec(n)

\* what a line says about the clock: the line itself, or what follows a bracketed name
ClockPart(d) == IF d.k = "header" THEN d.trail[1] ELSE d

StatedClocks ==
    LET idx == SelectSeq([j \in 1..Len(input) |-> j],
                         LAMBDA j : /\ SectionBefore(input, j) = Sec.ZhengTi
                                    /\ \/ input[j].k = "overall"
                                       \/ input[j].k = "header" /\ input[j].trail # <<>>)
    IN  SelectSeq([n \in 1..Len(idx) |-> ClockPart(input[idx[n]])],
                  LAMBDA d : d.stage /\ d.clock)

C9_Clock ==
    Returned =>
        match_state.time_str =
            IF StatedClocks = <<>> THEN <<"0", "0", ":", "0", "0">>
            ELSE LET d == StatedClocks[Len(StatedClocks)]
                 IN  Dec(d.m) \o <<":">> \o TwoDigits(d.s)

\* C9 witness: 13分4秒 was read as 13:04.
C9_Witness ==
    /\ Returned
    /\ StatedClocks # <<>> /\ StatedClocks[1].m = 13 /\ StatedClocks[1].s = 4
    /\ match_state.time_str = <<"1", "3", ":", "0", "4">>

\* C10: aggregate-stats extraction.  On a line of [总体态势], every sub-clause naming
\* ally kills, enemy kills, ally gold or enemy gold sets that total to the digits after
\* its colon, whichever sub-clauses the line has (the last such clause of the text
\* decides the total).
StatedAggregates == LinesOf(input, "agg", {Sec.ZongTi})

C10_EveryClauseCounts ==
    Returned =>
        \A n \in 1..Len(StatedAggregates) :
            LET cs == input[StatedAggregates[n]].clauses
            IN  \A m \in 1..Len(cs) :
                    (/\ cs[m].form = "ok"
                     /\ n = Len(StatedAggregates)
                     /\ \A later \in (m + 1)..Len(cs) : cs[later].kw # cs[m].kw)
                    => match_state[cs[m].kw] = cs[m].v

\* C11: hero tag decoding.  The Heroes of a returned MatchState are, in text order, one
\* per hero line with a closed tag; each has its side from the first token of the tag
\* (我方 is ally, blue; otherwise enemy, red), its player label from the second token
\* and its name from the last token, however many tokens the tag has.
TagTokens(tag) ==
    CASE tag = "ally3"    -> <<Kw.WoFang, NameWanJia, NameLianPo>>
      [] tag = "enemy4"   -> <<Kw.DiFang, NameWanJia, <<"2">>, NameDaJi>>
      [] tag = "ally2"    -> <<Kw.WoFang, NameLianPo>>
      [] tag = "nohyphen" -> <<NameLianPo>>

C11_TagDecoding ==
    Returned =>
        /\ Len(match_state.heroes) = Len(StatedHeroes)
        /\ \A n \in 1..Len(StatedHeroes) :
               LET tokens == TagTokens(StatedHeroes[n].tag)
                   h == match_state.heroes[n]
               IN  /\ h.team = (IF tokens[1] = Kw.WoFang THEN "blue" ELSE "red")
                   /\ h.player_name = tokens[2]
                   /\ h.name = tokens[Len(tokens)]

\* C11 witness: a returned hero of a four-token enemy tag, named by the fourth token.
C11_Witness ==
    /\ Returned
    /\ Len(match_state.heroes) = 1
    /\ StatedHeroes[1].tag = "enemy4"
    /\ match_state.heroes[1].team = "red"
    /\ match_state.heroes[1].player_name = NameWanJia
    /\ match_state.heroes[1].name = NameDaJi

\* C12: neutral-objective records.  For every record of a returned MatchState and the
\* segment it was read from: exists is false where the segment says 不存在 and true
\* where it says 存在; a respawn countdown is set only on a record with exists false;
\* the hp fraction is the stated percentage, and 1.0 where the objective is said to
\* exist with no percentage.
C12_ObjectiveRecord ==
    Returned =>
        \A n \in 1..Len(match_state.monsters) :
            LET m == match_state.monsters[n]
            IN  /\ m.respawn_time # None => ~m.exists
                /\ \A k \in 1..Len(StatedMonsters) :
                       LET said == StatedMonsters[k].seg
                       IN  m.description = StatedMonsters[k].text =>
                               /\ said.state = "gone" => ~m.exists
                               /\ said.state = "exists" => m.exists
                               /\ said.hp # <<>> => IsPercent(m.hp_percent, said.hp[1])
                               /\ (said.state = "exists" /\ said.hp = <<>>)
                                  => m.hp_percent = FracDen

\* C12 witness: a returned line with an objective that exists with no percentage, at
\* full hp, and one that is gone, with its countdown.
C12_Witness ==
    /\ Returned
    /\ Len(match_state.monsters) = 2 /\ Len(StatedMonsters) = 2
    /\ StatedMonsters[1].seg.state = "exists" /\ StatedMonsters[1].seg.hp = <<>>
    /\ match_state.monsters[1].description = StatedMonsters[1].text
    /\ match_state.monsters[1].exists /\ match_state.monsters[1].hp_percent = FracDen
    /\ StatedMonsters[2].seg.state = "gone" /\ StatedMonsters[2].seg.cd = <<29>>
    /\ match_state.monsters[2].description = StatedMonsters[2].text
    /\ ~match_state.monsters[2].exists /\ match_state.monsters[2].respawn_time = <<29>>

\* C13: in [野怪状态] every segment naming a known objective yields a record, the
\* second and later segments of a line too; the records are in text order, and a
\* segment with no coordinate gives position (0, 0).
C13_EverySegmentYields ==
    Returned =>
        /\ Len(match_state.monsters) = Len(StatedMonsters)
        /\ \A n \in 1..Len(StatedMonsters) :
               /\ match_state.monsters[n].name = known_monsters[StatedMonsters[n].seg.name]
               /\ StatedMonsters[n].seg.coord = "none"
                  => match_state.monsters[n].position = <<0, 0>>

(***************************************************************************)
(* MatchRenderer (src/src/renderer.py).                                    *)
(*                                                                         *)
(* scale_factor is kept in 1/ScaleDen.  Pixel coordinates on the map are   *)
(* kept in 1/PxDen of a pixel; pixel sizes (s(...), the canvas, map_rect)  *)
(* are whole pixels, as int() makes them.  The scale factors used make     *)
(* map_size a multiple of 120, so that _coord_transform is exact.          *)
(***************************************************************************)
ScaleDen == 100
PxDen == 100

base_map_size == 800
base_padding_top == 150
base_panel_width == 280
base_height == 1180

\* the files under assets_dir: metadata tables, hero icons (by ename), item icons
\* (by id), the map image, a font file, the invisibility overlay
Assets(metadata, hero_icons, item_icons, map_image, font, invisible) ==
    [metadata |-> metadata, hero_icons |-> hero_icons, item_icons |-> item_icons,
     map_image |-> map_image, font |-> font, invisible |-> invisible]

\* heroes.json and items.json: cname -> ename, item_name -> item_id
HeroesJson == (NameLianPo :> 1) @@ (NameDaJi :> 2)
ItemsJson == (NameItemA :> 1) @@ (NameItemB :> 2)

\* int(val * self.scale_factor), val >= 0
s(self, val) == (val * self.scale_factor) \div ScaleDen

\* an attribute of self that no statement has assigned yet
Unset == <<"unset">>

\* MatchRenderer(assets_dir, scale_factor), scale_factor > 0
MatchRenderer(assets, scale_factor) ==
    [assets_dir |-> assets,
     scale_factor |-> scale_factor,
     width |-> ((base_map_size + 2 * base_panel_width) * scale_factor) \div ScaleDen,
     height |-> (base_height * scale_factor) \div ScaleDen,
     map_size |-> (base_map_size * scale_factor) \div ScaleDen,
     hero_map |-> IF assets.metadata THEN HeroesJson ELSE <<>>,
     item_map |-> IF assets.metadata THEN ItemsJson ELSE <<>>,
     font_path |-> IF assets.font THEN <<"font">> ELSE None,
     invisible_icon |-> IF assets.invisible THEN <<"invisible.png">> ELSE None,
     map_rect |-> Unset,
     monster_map_coords |-> Unset,
     hero_map_coords |-> Unset]

\* render: map_x, map_y, self.map_rect
MapRect(self) ==
    LET map_x == (self.width - self.map_size) \div 2
        map_y == s(self, base_padding_top)
    IN  <<map_x, map_y, map_x + self.map_size, map_y + self.map_size>>

\* faulty variant: the vertical axis not flipped
_coord_transformUnflipped(self, gx, gy) ==
    << self.map_rect[1] * PxDen
         + ((gx + 60 * CoordDen) * self.map_size * PxDen) \div (120 * CoordDen),
       self.map_rect[2] * PxDen
         + ((gy + 60 * CoordDen) * self.map_size * PxDen) \div (120 * CoordDen) >>

\* scale = map_size / 120.0; cx = map_rect[0] + (gx + 60) * scale;
\* cy = map_rect[1] + (60 - gy) * scale
_coord_transform(self, gx, gy) ==
    << self.map_rect[1] * PxDen
         + ((gx + 60 * CoordDen) * self.map_size * PxDen) \div (120 * CoordDen),
       self.map_rect[2] * PxDen
         + ((60 * CoordDen - gy) * self.map_size * PxDen) \div (120 * CoordDen) >>

\* math.sqrt, rounded down: the largest r in lo..hi with r * r <= n
RECURSIVE SqrtIn(_, _, _)
SqrtIn(n, lo, hi) ==
    IF lo >= hi THEN lo
    ELSE LET mid == (lo + hi + 1) \div 2
         IN  IF mid * mid <= n THEN SqrtIn(n, mid, hi) ELSE SqrtIn(n, lo, mid - 1)

sqrt(n) == SqrtIn(n, 0, Min(n, 46340))

\* faulty variant: touching icons count as overlapping
_check_overlapInclusive(pos1, pos2, radius) ==
    LET dist2 == (pos1[1] - pos2[1]) * (pos1[1] - pos2[1])
                 + (pos1[2] - pos2[2]) * (pos1[2] - pos2[2])
    IN  dist2 <= (radius * 2 * PxDen) * (radius * 2 * PxDen)

\* dist = math.sqrt((x1 - x2)**2 + (y1 - y2)**2); return dist < (radius * 2)
\* (radius * 2 is a whole number of 1/PxDen, so dist < it iff dist rounded down is)
_check_overlap(pos1, pos2, radius) ==
    LET dist == sqrt((pos1[1] - pos2[1]) * (pos1[1] - pos2[1])
                     + (pos1[2] - pos2[2]) * (pos1[2] - pos2[2]))
    IN  dist < radius * 2 * PxDen

(***************************************************************************)
(* The helpers applied on their own                                        *)
(***************************************************************************)
MaxRadius == 3

\* parse is not running
ParserIdle ==
    /\ input = <<>>
    /\ pc = "done"
    /\ i = 0
    /\ current_section = NoSection
    /\ static_towers = <<>>
    /\ match_state = MatchState
    /\ exc = ""

NoAssets == Assets(FALSE, {}, {}, FALSE, FALSE, FALSE)

ScaleFactors == {15, 30}                  \* 0.15 and 0.30

\* pixel positions, in 1/PxDen: at, just inside and just outside twice a radius
OverlapPoints == {<<x, y>> : x \in {0, 1, 360, 599, 600, 601}, y \in {0, 480, -480}}

\* logical coordinates, in 1/CoordDen: the corners, the centre and points between
LogicalGrid == {-60 * CoordDen, -3050, -1, 0, 1, 1820, 60 * CoordDen}

HelperArgs ==
    {[op |-> "_check_overlap", args |-> <<pos1, pos2, radius>>, result |-> <<>>] :
        pos1 \in OverlapPoints, pos2 \in OverlapPoints, radius \in 0..MaxRadius}
    \cup {[op |-> "_coord_transform", args |-> <<sf, gx, gy>>, result |-> <<>>] :
            sf \in ScaleFactors, gx \in LogicalGrid, gy \in LogicalGrid}

HelperInit ==
    /\ ParserIdle
    /\ renderer = <<>>
    /\ calls = <<>>
    /\ overlapped = FALSE
    /\ fn \in HelperArgs
    /\ batch = <<>>

CheckOverlap ==
    /\ fn.op = "_check_overlap"
    /\ fn.result = <<>>
    /\ fn' = [fn EXCEPT !.result = <<_check_overlap(fn.args[1], fn.args[2], fn.args[3])>>]
    /\ UNCHANGED <<pvars, batch, renderer, calls, overlapped>>

\* the renderer of a scale factor, once render has laid the map out
LaidOut(sf) ==
    LET self == MatchRenderer(NoAssets, sf)
    IN  [self EXCEPT !.map_rect = MapRect(self)]

CoordTransform ==
    /\ fn.op = "_coord_transform"
    /\ fn.result = <<>>
    /\ fn' = [fn EXCEPT !.result = _coord_transform(LaidOut(fn.args[1]), fn.args[2], fn.args[3])]
    /\ UNCHANGED <<pvars, batch, renderer, calls, overlapped>>

HelperNext == CheckOverlap \/ CoordTransform

HelperSpec == HelperInit /\ [][HelperNext]_vars

\* C19: _check_overlap(posA, posB, radius) is true iff the Euclidean distance between
\* the positions is strictly less than 2 * radius: dist^2 < (2 * radius)^2, radius >= 0.
\* So it is false at distance exactly 2 * radius, false for radius 0, and symmetric.
Dist2(a, b) == (a[1] - b[1]) * (a[1] - b[1]) + (a[2] - b[2]) * (a[2] - b[2])

C19_OverlapStrict ==
    (fn # <<>> /\ fn.op = "_check_overlap" /\ fn.result # <<>>) =>
        LET a == fn.args[1]
            b == fn.args[2]
            r == fn.args[3]
            twice == 2 * r * PxDen
        IN  /\ fn.result[1] = (Dist2(a, b) < twice * twice)
            /\ Dist2(a, b) = twice * twice => ~fn.result[1]
            /\ r = 0 => ~fn.result[1]
            /\ fn.result[1] = _check_overlap(b, a, r)

\* C19 witness: two distinct positions exactly 2 * radius apart (a 3-4-5 triangle,
\* radius 3) found not to overlap.
C19_Witness ==
    /\ fn # <<>> /\ fn.op = "_check_overlap"
    /\ fn.args = <<<<0, 0>>, <<360, 480>>, 3>>
    /\ fn.result = <<FALSE>>

\* C20: the coordinate transform is affine from the logical square [-60, 60]^2 onto
\* the map rectangle, vertical axis inverted: (-60, 60) is the top-left corner,
\* (60, -60) the bottom-right, (0, 0) the centre, larger gy gives smaller pixel y; it
\* is one-to-one, and its inverse takes the pixel position back to the logical point.
InverseTransform(self, cx, cy) ==
    << ((cx - self.map_rect[1] * PxDen) * 120 * CoordDen) \div (self.map_size * PxDen)
         - 60 * CoordDen,
       60 * CoordDen
         - ((cy - self.map_rect[2] * PxDen) * 120 * CoordDen) \div (self.map_size * PxDen) >>

C20_TransformAffine ==
    (fn # <<>> /\ fn.op = "_coord_transform" /\ fn.result # <<>>) =>
        LET self == LaidOut(fn.args[1])
            rect == self.map_rect
            gx == fn.args[2]
            gy == fn.args[3]
        IN  /\ _coord_transform(self, -60 * CoordDen, 60 * CoordDen)
                 = <<rect[1] * PxDen, rect[2] * PxDen>>
            /\ _coord_transform(self, 60 * CoordDen, -60 * CoordDen)
                 = <<rect[3] * PxDen, rect[4] * PxDen>>
            /\ _coord_transform(self, 0, 0)
                 = <<((rect[1] + rect[3]) * PxDen) \div 2, ((rect[2] + rect[4]) * PxDen) \div 2>>
            /\ rect[3] - rect[1] = rect[4] - rect[2]
            /\ (fn.result[1] - rect[1] * PxDen) * 120 * CoordDen
                 = (gx + 60 * CoordDen) * self.map_size * PxDen
            /\ (fn.result[2] - rect[2] * PxDen) * 120 * CoordDen
                 = (60 * CoordDen - gy) * self.map_size * PxDen
            /\ \A gy2 \in LogicalGrid :
                   gy2 > gy => _coord_transform(self, gx, gy2)[2] < fn.result[2]
            /\ \A gx2 \in LogicalGrid : \A gy2 \in LogicalGrid :
                   _coord_transform(self, gx2, gy2) = fn.result => <<gx2, gy2>> = <<gx, gy>>
            /\ InverseTransform(self, fn.result[1], fn.result[2]) = <<gx, gy>>

\* C20 witness: at scale 0.30 the logical point (18.2, -30.5) was transformed.
C20_Witness ==
    /\ fn # <<>> /\ fn.op = "_coord_transform"
    /\ fn.args = <<30, 1820, -3050>>
    /\ fn.result = <<84 * PxDen + 15640, 45 * PxDen + 18100>>

(***************************************************************************)
(* render.  The image is modelled by the sequence of calls made on img and *)
(* draw: two calls with the same sequence give the same image.  Each call  *)
(* keeps its coordinates, fill, width, text and font; outline, anchor and  *)
(* stroke are constants of the call site and are left out.  Coordinates    *)
(* of the on-map layers and of connectors are in 1/PxDen of a pixel, those *)
(* of the other layers in whole pixels.                                    *)
(***************************************************************************)
NoFont == [kind |-> "", size |-> 0]

Shape(layer, kind, at, fill, width) ==
    [layer |-> layer, kind |-> kind, at |-> at, fill |-> fill, width |-> width,
     text |-> <<>>, font |-> NoFont]

Text(layer, at, text, font, fill) ==
    [layer |-> layer, kind |-> "text", at |-> at, fill |-> fill, width |-> 0,
     text |-> text, font |-> font]

\* img.paste(image resized to size x size, at); grayscale after convert('L')
Paste(layer, at, image, size, mode) ==
    [layer |-> layer, kind |-> "paste", at |-> at, fill |-> mode, width |-> size,
     text |-> image, font |-> NoFont]

RECURSIVE Concat(_)
Concat(ss) == IF ss = <<>> THEN <<>> ELSE Head(ss) \o Concat(Tail(ss))

\* int(pct * 100) for pct = n / 100.0: the float product falls just below n for these n
TruncatedPercents == {29, 57, 58, 113, 114, 115, 116}
PercentInt(pct) == IF pct \in TruncatedPercents THEN pct - 1 ELSE pct

_get_font(self, size) ==
    IF self.font_path # None THEN [kind |-> "truetype", size |-> size]
    ELSE [kind |-> "default", size |-> 0]

\* the icon file of a hero name, None when the name or the file is missing
_get_hero_icon(self, name) ==
    IF name \in DOMAIN self.hero_map /\ self.hero_map[name] \in self.assets_dir.hero_icons
    THEN <<self.hero_map[name]>> ELSE None

_get_item_icon(self, name) ==
    IF name \in DOMAIN self.item_map /\ self.item_map[name] \in self.assets_dir.item_icons
    THEN <<self.item_map[name]>> ELSE None

\* the map image, or the vector placeholder: background, river, four lane edges, mid lane
_draw_map(self, x, y) ==
    LET m == self.map_size
    IN  IF self.assets_dir.map_image
        THEN <<Paste("map", <<x, y>>, <<"map.png">>, m, "RGB")>>
        ELSE << Shape("map", "rectangle", <<x, y, x + m, y + m>>, "#0b0f19", 0),
                Shape("map", "line", <<x, y + m, x + m, y>>, "#1c2b3d", s(self, 40)),
                Shape("map", "line", <<x, y + m, x, y>>, "#2a2a2a", s(self, 10)),
                Shape("map", "line", <<x, y, x + m, y>>, "#2a2a2a", s(self, 10)),
                Shape("map", "line", <<x, y + m, x + m, y + m>>, "#2a2a2a", s(self, 10)),
                Shape("map", "line", <<x + m, y + m, x + m, y>>, "#2a2a2a", s(self, 10)),
                Shape("map", "line", <<x, y + m, x + m, y>>, "#2a2a2a", s(self, 10)) >>

\* x, y in 1/PxDen; w, h in pixels; pct in 1/FracDen: the filled part is int(w * pct) wide
_draw_bar(layer, x, y, w, h, pct, color) ==
    <<Shape(layer, "rectangle", <<x, y, x + w * PxDen, y + h * PxDen>>, "#333", 0)>>
    \o (IF pct > 0
        THEN <<Shape(layer, "rectangle",
                     <<x, y, x + ((w * pct) \div FracDen) * PxDen, y + h * PxDen>>, color, 0)>>
        ELSE <<>>)

\* draw.ellipse((cx-r, cy-r, cx+r, cy+r)), cx and cy in 1/PxDen, r in pixels
Disc(layer, cx, cy, r, fill, width) ==
    Shape(layer, "ellipse", <<cx - r * PxDen, cy - r * PxDen, cx + r * PxDen, cy + r * PxDen>>,
          fill, width)

\* The string literals of renderer.py.  The file holds them as UTF-8 text read as a
\* single-byte encoding and saved again, so none of them is the word it was written
\* for; each character is kept as its code point, which no token of the parser's
\* texts shares.
Lbl ==
    [ ZhuZai |-> <<"u00e4", "u00b8", "u00bb", "u00e5", "u00ae", "u00b0">>,    \* 206: written for 主宰
      Zhu |-> <<"u00e4", "u00b8", "u00bb">>,    \* 208: 主
      BaoJun |-> <<"u00e6", "u0161", "u00b4", "u00e5", "u203a">>,    \* 209: 暴君
      Bao |-> <<"u00e6", "u0161", "u00b4">>,    \* 211: 暴
      FengBaoLongWang |-> <<"u00e9", "u00a3", "u00e6", "u0161", "u00b4", "u00e9", "u00be", "u2122", "u00e7", "u2039">>,    \* 212: 风暴龙王
      Long |-> <<"u00e9", "u00be", "u2122">>,    \* 214: 龙
      LanBuff |-> <<"u00e8", "u201c", "b", "u", "f", "f">>,    \* 215: 蓝buff
      Lan |-> <<"u00e8", "u201c">>,    \* 217: 蓝
      HongBuff |-> <<"u00e7", "u00ba", "u00a2", "b", "u", "f", "f">>,    \* 218: 红buff
      Hong |-> <<"u00e7", "u00ba", "u00a2">>,    \* 220: 红
      WanJia |-> <<"u00e7", "u00a9", "u00e5", "u00ae", "u00b6">>,    \* 259: 玩家
      FengBao |-> <<"u00e9", "u00a3", "u00e6", "u0161", "u00b4">>,    \* 455: 风暴
      MoneyBag |-> <<"u011f", "u0178", "u2019", "u00b0", " ">>,    \* 532: a money bag and a space
      Skull |-> <<"u011f", "u0178", "u2019", "u20ac", " ">>,    \* 544: a skull and a space
      WoLan |-> <<"u00e6", "u02c6", "u2018", "u00e6", "u2013", "u00b9", "u00e8", "u201c", "b", "u", "f", "f">>,    \* 563: 我方蓝buff
      LanBuffCap |-> <<"u00e8", "u201c", "B", "u", "f", "f">>,    \* 563: 蓝Buff
      WoHong |-> <<"u00e6", "u02c6", "u2018", "u00e6", "u2013", "u00b9", "u00e7", "u00ba", "u00a2", "b", "u", "f", "f">>,    \* 564: 我方红buff
      HongBuffCap |-> <<"u00e7", "u00ba", "u00a2", "B", "u", "f", "f">>,    \* 564: 红Buff
      DiHong |-> <<"u00e6", "u2022", "u0152", "u00e6", "u2013", "u00b9", "u00e7", "u00ba", "u00a2", "b", "u", "f", "f">>,    \* 568: 敌方红buff
      DiLan |-> <<"u00e6", "u2022", "u0152", "u00e6", "u2013", "u00b9", "u00e8", "u201c", "b", "u", "f", "f">>,    \* 569: 敌方蓝buff
      SHouShuaXin |-> <<"s", "u00e5", "u00e5", "u02c6", "u00b7", "u00e6", "u2013", "u00b0">>,    \* 610: s后刷新
      BuCunZai |-> <<"u00e4", "u00b8", "u00e5", "u00ad", "u02dc", "u00e5", "u0153", "u00a8">>,    \* 612: 不存在
      WeiZhi |-> <<"u00e6", "u0153", "u00aa", "u00e7", "u0178", "u00a5">> ]    \* 649: 未知

\* self.hero_map_coords[name] = pos, on a dict
Store(table, name, pos) ==
    [n \in (DOMAIN table) \cup {name} |-> IF n = name THEN pos ELSE table[n]]

\* towers: a disc of radius s(12) in the team's colour and an hp bar
TowerMarks(self, towers) ==
    Concat([k \in 1..Len(towers) |->
        LET c == _coord_transform(self, towers[k].position[1], towers[k].position[2])
            color == IF towers[k].team = "blue" THEN "blue_tower" ELSE "red_tower"
        IN  <<Disc("tower", c[1], c[2], s(self, 12), color, s(self, 1))>>
            \o _draw_bar("tower", c[1] - s(self, 15) * PxDen, c[2] - s(self, 20) * PxDen,
                         s(self, 30), s(self, 4), towers[k].hp_percent, color)])

\* m_color and label, by the first of these substrings the name holds
MonsterStyle(name) ==
    CASE Contains(name, Lbl.ZhuZai)   -> [color |-> "#a855f7", label |-> Lbl.Zhu]
      [] Contains(name, Lbl.BaoJun)   -> [color |-> "#eab308", label |-> Lbl.Bao]
      [] Contains(name, Lbl.FengBaoLongWang) -> [color |-> "#f59e0b", label |-> Lbl.Long]
      [] Contains(name, Lbl.LanBuff)  -> [color |-> "#3b82f6", label |-> Lbl.Lan]
      [] Contains(name, Lbl.HongBuff) -> [color |-> "#ef4444", label |-> Lbl.Hong]
      [] OTHER                        -> [color |-> "#aaaaaa", label |-> <<"M">>]

\* monsters: those that exist get their position stored under their name, a disc, a
\* label and an hp bar; acc holds the operations and self.monster_map_coords so far
RECURSIVE MonsterMarks(_, _, _, _)
MonsterMarks(self, monsters, k, acc) ==
    IF k > Len(monsters) THEN acc
    ELSE IF ~monsters[k].exists THEN MonsterMarks(self, monsters, k + 1, acc)
    ELSE LET c == _coord_transform(self, monsters[k].position[1], monsters[k].position[2])
             style == MonsterStyle(monsters[k].name)
         IN  MonsterMarks(self, monsters, k + 1,
                 [ops |-> acc.ops
                          \o << Disc("monster", c[1], c[2], s(self, 12), style.color, s(self, 2)),
                                Text("monster", c, style.label, _get_font(self, s(self, 14)),
                                     "white") >>
                          \o _draw_bar("monster", c[1] - s(self, 12) * PxDen,
                                       c[2] - s(self, 18) * PxDen, s(self, 24), s(self, 4),
                                       monsters[k].hp_percent, "hp_bar"),
                  coords |-> Store(acc.coords, monsters[k].name, c)])

\* green for the player's hero, else the team's colour
BorderColor(hero) ==
    IF Contains(hero.player_name, Lbl.WanJia) THEN "border_player"
    ELSE IF hero.team = "blue" THEN "border_blue" ELSE "border_red"

\* the icon of a hero on the map: a border disc and the pasted icon, or a gray disc
HeroIcon(self, hero, c) ==
    LET icon_size == s(self, 48)
        icon == _get_hero_icon(self, hero.name)
        edge == (icon_size \div 2 + s(self, 3)) * PxDen
    IN  IF icon # None
        THEN << Shape("hero", "ellipse", <<c[1] - edge, c[2] - edge, c[1] + edge, c[2] + edge>>,
                      BorderColor(hero), 0),
                Paste("hero", << ((c[1] - (icon_size \div 2) * PxDen) \div PxDen) * PxDen,
                                 ((c[2] - (icon_size \div 2) * PxDen) \div PxDen) * PxDen >>,
                      icon, icon_size, "RGB") >>
        ELSE <<Disc("hero", c[1], c[2], s(self, 15), "gray", 0)>>

\* heroes with a position: the position stored under the hero's name, the icon, the
\* hp and mana bars under it and the player's name above it
RECURSIVE HeroMarks(_, _, _, _)
HeroMarks(self, heroes, k, acc) ==
    IF k > Len(heroes) THEN acc
    ELSE IF heroes[k].position = None THEN HeroMarks(self, heroes, k + 1, acc)
    ELSE LET c == _coord_transform(self, heroes[k].position[1], heroes[k].position[2])
         IN  HeroMarks(self, heroes, k + 1,
                 [ops |-> acc.ops
                          \o HeroIcon(self, heroes[k], c)
                          \o _draw_bar("hero", c[1] - s(self, 15) * PxDen,
                                       c[2] + s(self, 28) * PxDen, s(self, 30), s(self, 4),
                                       heroes[k].hp_percent, "hp_bar")
                          \o _draw_bar("hero", c[1] - s(self, 15) * PxDen,
                                       c[2] + s(self, 32) * PxDen, s(self, 30), s(self, 2),
                                       heroes[k].mana_percent, "mana_bar")
                          \o <<Text("hero", <<c[1], c[2] - s(self, 32) * PxDen>>,
                                    heroes[k].player_name, _get_font(self, s(self, 18)),
                                    "text_white")>>,
                  coords |-> Store(acc.coords, heroes[k].name, c)])

\* minion waves: a disc of radius s(6) and "count | hp%"
MinionMarks(self, minions) ==
    Concat([k \in 1..Len(minions) |->
        LET c == _coord_transform(self, minions[k].position[1], minions[k].position[2])
        IN  << Disc("minion", c[1], c[2], s(self, 6),
                    IF minions[k].team = "blue" THEN "blue_minion" ELSE "red_minion", 0),
               Text("minion", <<c[1], c[2] - s(self, 10) * PxDen>>,
                    Dec(minions[k].count) \o <<" ", "|", " ">>
                    \o Dec(PercentInt(minions[k].hp_percent)) \o <<"%">>,
                    _get_font(self, s(self, 12)), "white") >>])

\* a dashed line from start to end, both in 1/PxDen: nothing when the distance is 0,
\* else dashes of dash_length with gaps of gap_length, kept as one operation
_draw_dashed_line(layer, start, end, fill, width, dash_length, gap_length) ==
    IF start = end THEN <<>>
    ELSE <<Shape(layer, "dashed", start \o end \o <<dash_length, gap_length>>, fill, width)>>

\* b_color and label of a buff, by the first of these substrings it holds
BuffStyle(buff) ==
    CASE Contains(buff, Lbl.Lan) -> [color |-> "buff_blue", label |-> Lbl.Lan]
      [] Contains(buff, Lbl.Hong) -> [color |-> "buff_red", label |-> Lbl.Hong]
      [] Contains(buff, Lbl.BaoJun) -> [color |-> "buff_tyrant", label |-> Lbl.Bao]
      [] Contains(buff, Lbl.FengBao) \/ Contains(buff, Lbl.Long)
           -> [color |-> "buff_dragon", label |-> Lbl.Long]
      [] OTHER -> [color |-> "white", label |-> <<"?">>]

\* the avatar of a card: nothing when the icon does not resolve; else the icon (gray
\* for a dead hero) and the test of hero.is_visible, an attribute HeroStatus lacks
CardAvatar(self, hero, x, y) ==
    LET icon == _get_hero_icon(self, hero.name)
        at == <<x + s(self, 10), y + s(self, 10)>>
        pasted == <<Paste("card", at, icon, s(self, 64), IF hero.is_dead THEN "L" ELSE "RGB")>>
    IN  IF icon = None THEN [ops |-> <<>>, exc |-> ""]
        ELSE IF "is_visible" \notin DOMAIN hero
        THEN [ops |-> pasted, exc |-> "AttributeError"]
        ELSE IF ~hero.is_visible /\ self.invisible_icon # None
        THEN [ops |-> pasted \o <<Paste("card", at, self.invisible_icon, s(self, 64), "RGBA")>>,
              exc |-> ""]
        ELSE [ops |-> pasted, exc |-> ""]

\* name, "HP: ..%   MP: ..%", gold and KDA, the ult dot, one dot and label per buff
CardTexts(self, hero, x, y) ==
    LET font_small == _get_font(self, s(self, 12))
        status_x == x + s(self, 80)
        status_y == y + s(self, 68)
    IN  << Text("card", <<x + s(self, 80), y + s(self, 10)>>,
                hero.name \o <<" ", "(">> \o hero.player_name \o <<")">>,
                _get_font(self, s(self, 16)), "text_white"),
           Text("card", <<x + s(self, 80), y + s(self, 32)>>,
                <<"HP: ">> \o Dec(PercentInt(hero.hp_percent)) \o <<"%", "   MP: ">>
                \o Dec(PercentInt(hero.mana_percent)) \o <<"%">>, font_small, "#cccccc"),
           Text("card", <<x + s(self, 80), y + s(self, 50)>>,
                <<"Gold: ">> \o Dec(hero.gold) \o <<"  KDA: ">> \o Dec(hero.kda[1]) \o <<"/">>
                \o Dec(hero.kda[2]) \o <<"/">> \o Dec(hero.kda[3]), font_small, "#aaaaaa"),
           Shape("card", "ellipse",
                 <<status_x, status_y, status_x + s(self, 10), status_y + s(self, 10)>>,
                 IF hero.has_ult THEN "ult_active" ELSE "ult_inactive", 0),
           Text("card", <<status_x + s(self, 12), status_y - s(self, 2)>>, <<"Ult">>,
                font_small, "white") >>
        \o Concat([k \in 1..Len(hero.buffs) |->
              LET bx == status_x + s(self, 35) + (k - 1) * s(self, 28)
                  style == BuffStyle(hero.buffs[k])
              IN  << Shape("card", "ellipse",
                           <<bx, status_y, bx + s(self, 10), status_y + s(self, 10)>>,
                           style.color, 0),
                     Text("card", <<bx + s(self, 10) + s(self, 4), status_y - s(self, 2)>>,
                          style.label, font_small, style.color) >>])

\* the items whose icon resolves, side by side; the others take no room
CardItems(self, hero, x, y) ==
    LET Resolves(item_name) == _get_item_icon(self, item_name) # None
        shown == SelectSeq(hero.items, Resolves)
    IN  [k \in 1..Len(shown) |->
            Paste("card", <<x + s(self, 10) + (k - 1) * s(self, 26), y + s(self, 80)>>,
                  _get_item_icon(self, shown[k]), s(self, 22), "RGB")]

\* faulty variant: the connector drawn for every hero on the map
CardConnectorAlways(self, hero, x, y, w, align) ==
    LET card_cy == y + s(self, 120) \div 2
        card_cx == IF align = "left" THEN x + w ELSE x
        table == self.hero_map_coords
    IN  IF hero.name \notin DOMAIN table THEN <<>>
        ELSE _draw_dashed_line("card", <<card_cx * PxDen, card_cy * PxDen>>, table[hero.name],
                               BorderColor(hero), Max(1, (15 * self.scale_factor) \div 1000),
                               s(self, 10), s(self, 8))

\* the connector from the card's edge to the position stored under the hero's name,
\* drawn only if a position stored under another name overlaps it at radius s(24)
CardConnector(self, hero, x, y, w, align) ==
    LET card_cy == y + s(self, 120) \div 2
        card_cx == IF align = "left" THEN x + w ELSE x
        table == self.hero_map_coords
    IN  IF hero.name \notin DOMAIN table THEN <<>>
        ELSE IF \E other_name \in (DOMAIN table) \ {hero.name} :
                   _check_overlap(table[hero.name], table[other_name], s(self, 24))
        THEN _draw_dashed_line("card", <<card_cx * PxDen, card_cy * PxDen>>, table[hero.name],
                               BorderColor(hero), Max(1, (15 * self.scale_factor) \div 1000),
                               s(self, 10), s(self, 8))
        ELSE <<>>

\* one side card; exc is the exception that left it, "" if none
_draw_hero_card(self, hero, x, y, w, align) ==
    LET background == Shape("card", "rectangle", <<x, y, x + w, y + s(self, 120)>>,
                            "panel_bg", 0)
        avatar == CardAvatar(self, hero, x, y)
    IN  IF avatar.exc # ""
        THEN [ops |-> <<background>> \o avatar.ops, exc |-> avatar.exc]
        ELSE [ops |-> <<background>> \o avatar.ops \o CardTexts(self, hero, x, y)
                      \o CardItems(self, hero, x, y)
                      \o CardConnector(self, hero, x, y, w, align),
              exc |-> ""]

\* the cards of one panel from the k-th on, one every s(150), until one raises
RECURSIVE PanelCards(_, _, _, _, _, _)
PanelCards(self, panel, x, align, k, acc) ==
    IF k > Len(panel) \/ acc.exc # "" THEN acc
    ELSE LET panel_width == (self.width - self.map_size) \div 2
             card == _draw_hero_card(self, panel[k], x,
                                     s(self, base_padding_top) + (k - 1) * s(self, 150),
                                     panel_width - s(self, 40), align)
         IN  PanelCards(self, panel, x, align, k + 1,
                        [ops |-> acc.ops \o card.ops, exc |-> card.exc])

IsBlue(h) == h.team = "blue"
IsRed(h) == h.team = "red"

\* faulty variant: the heroes of the state regrouped by team in place
_draw_side_panelsRegrouping(self, state) ==
    LET panel_width == (self.width - self.map_size) \div 2
        blue == PanelCards(self, SelectSeq(state.heroes, IsBlue), s(self, 20), "left", 1,
                           [ops |-> <<>>, exc |-> ""])
        both == PanelCards(self, SelectSeq(state.heroes, IsRed),
                           self.width - panel_width + s(self, 20), "right", 1, blue)
    IN  [ops |-> both.ops, exc |-> both.exc,
         state |-> [state EXCEPT !.heroes = SelectSeq(@, IsBlue)
                                                         \o SelectSeq(@, IsRed)]]

\* blue_heroes and red_heroes are new lists; the blue cards go on the left, then the
\* red cards on the right; state is the MatchState object as the method leaves it
_draw_side_panels(self, state) ==
    LET panel_width == (self.width - self.map_size) \div 2
        blue == PanelCards(self, SelectSeq(state.heroes, IsBlue), s(self, 20), "left", 1,
                           [ops |-> <<>>, exc |-> ""])
        both == PanelCards(self, SelectSeq(state.heroes, IsRed),
                           self.width - panel_width + s(self, 20), "right", 1, blue)
    IN  [ops |-> both.ops, exc |-> both.exc, state |-> state]

\* "name" or "name(player)" of the dead heroes of a team, in the order of the state
DeadNames(state, team) ==
    LET IsDeadOfTeam(h) == h.team = team /\ h.is_dead
        dead == SelectSeq(state.heroes, IsDeadOfTeam)
    IN  [k \in 1..Len(dead) |->
            dead[k].name \o (IF Contains(dead[k].player_name, Lbl.WanJia)
                             THEN <<"(">> \o dead[k].player_name \o <<")">> ELSE <<>>)]

\* the clock, both kill counts, both gold totals, and a line of dead heroes per team
\* that has any
_draw_top_bar(self, state) ==
    LET cx == self.width \div 2
        offset_score == s(self, 150)
        font_score == _get_font(self, s(self, 40))
        font_gold == _get_font(self, s(self, 20))
        font_dead == _get_font(self, s(self, 16))
        blue_dead == DeadNames(state, "blue")
        red_dead == DeadNames(state, "red")
    IN  << Text("top", <<cx, s(self, 40)>>, state.time_str, _get_font(self, s(self, 32)),
                "white"),
           Text("top", <<cx - offset_score, s(self, 40)>>, Dec(state.blue_kills), font_score,
                "blue_tower"),
           Text("top", <<cx + offset_score, s(self, 40)>>, Dec(state.red_kills), font_score,
                "red_tower"),
           Text("top", <<cx - offset_score, s(self, 80)>>,
                Lbl.MoneyBag \o Dec(state.blue_gold), font_gold, "text_gold"),
           Text("top", <<cx + offset_score, s(self, 80)>>,
                Lbl.MoneyBag \o Dec(state.red_gold), font_gold, "text_gold") >>
        \o (IF Len(blue_dead) > 0
            THEN <<Text("top", <<cx - offset_score, s(self, 110)>>,
                        Lbl.Skull \o Join(blue_dead, <<" ">>), font_dead, "#9ca3af")>>
            ELSE <<>>)
        \o (IF Len(red_dead) > 0
            THEN <<Text("top", <<cx + offset_score, s(self, 110)>>,
                        Lbl.Skull \o Join(red_dead, <<" ">>), font_dead, "#9ca3af")>>
            ELSE <<>>)

\* the seven slots of the bottom strip: key, label, colour
monster_order ==
    << [key |-> Lbl.WoLan,  label |-> Lbl.LanBuffCap,  color |-> "blue_minion"],
       [key |-> Lbl.WoHong, label |-> Lbl.HongBuffCap, color |-> "red_minion"],
       [key |-> Lbl.ZhuZai, label |-> Lbl.ZhuZai,      color |-> "#a855f7"],
       [key |-> Lbl.FengBaoLongWang, label |-> Lbl.FengBaoLongWang, color |-> "#f59e0b"],
       [key |-> Lbl.BaoJun, label |-> Lbl.BaoJun,      color |-> "#eab308"],
       [key |-> Lbl.DiHong, label |-> Lbl.HongBuffCap, color |-> "red_minion"],
       [key |-> Lbl.DiLan,  label |-> Lbl.LanBuffCap,  color |-> "blue_minion"] >>

\* status: the first monster of the state whose name holds the key or is held by it
SlotStatus(state, key) ==
    LET found == {k \in 1..Len(state.monsters) :
                     Contains(state.monsters[k].name, key)
                     \/ Contains(key, state.monsters[k].name)}
    IN  IF found = {} THEN None
        ELSE <<state.monsters[CHOOSE k \in found : \A j \in found : k <= j]>>

\* "HP: n%" if it exists, else "<t>s后刷新" with a countdown, else 不存在
StatusText(status) ==
    IF status.exists THEN <<"HP: ">> \o Dec(PercentInt(status.hp_percent)) \o <<"%">>
    ELSE IF status.respawn_time # None /\ status.respawn_time[1] # 0
    THEN Dec(status.respawn_time[1]) \o Lbl.SHouShuaXin
    ELSE Lbl.BuCunZai

\* faulty variant: the connector of a slot drawn whenever its monster is on the map
SlotConnectorAlways(self, status, cx, top) ==
    IF ~(status.exists /\ status.name \in DOMAIN self.monster_map_coords) THEN <<>>
    ELSE _draw_dashed_line("bottom", <<cx * PxDen, top * PxDen>>,
                           self.monster_map_coords[status.name], "#888888", s(self, 2),
                           s(self, 8), 5)

\* the connector from the top of a slot's icon to the position stored under the
\* monster's name, drawn only if a stored hero position overlaps it at radius
\* s(15) + s(16)
SlotConnector(self, status, cx, top) ==
    IF ~(status.exists /\ status.name \in DOMAIN self.monster_map_coords) THEN <<>>
    ELSE IF \E h_name \in DOMAIN self.hero_map_coords :
               _check_overlap(self.monster_map_coords[status.name],
                              self.hero_map_coords[h_name], s(self, 15) + s(self, 16))
    THEN _draw_dashed_line("bottom", <<cx * PxDen, top * PxDen>>,
                           self.monster_map_coords[status.name], "#888888", s(self, 2),
                           s(self, 8), 5)
    ELSE <<>>

\* the slot of index n (from 0): icon, first character of the label, label, status text and
\* connector of the monster found, or the unknown placeholder
Slot(self, state, n) ==
    LET entry == monster_order[n + 1]
        item_width == self.width \div Len(monster_order)
        cx == n * item_width + item_width \div 2
        cy == (self.height - s(self, 180)) + s(self, 180) \div 2
        r == s(self, 20)
        disc == <<cx - r, cy - r - s(self, 20), cx + r, cy + r - s(self, 20)>>
        font_name == _get_font(self, s(self, 16))
        font_status == _get_font(self, s(self, 14))
        status == SlotStatus(state, entry.key)
    IN  IF status # None
        THEN << Shape("bottom", "ellipse", disc,
                      IF status[1].exists THEN entry.color ELSE "#555", s(self, 2)),
                Text("bottom", <<cx, cy - s(self, 20)>>, <<entry.label[1]>>, font_name, "white"),
                Text("bottom", <<cx, cy + s(self, 20)>>, entry.label, font_name, "white"),
                Text("bottom", <<cx, cy + s(self, 45)>>, StatusText(status[1]), font_status,
                     "#ccc") >>
             \o SlotConnector(self, status[1], cx, cy - r - s(self, 20))
        ELSE << Shape("bottom", "ellipse", disc, "", s(self, 2)),
                Text("bottom", <<cx, cy - s(self, 20)>>, <<"?">>, font_name, "#555"),
                Text("bottom", <<cx, cy + s(self, 20)>>, entry.label, font_name, "#555"),
                Text("bottom", <<cx, cy + s(self, 45)>>, Lbl.WeiZhi, font_status, "#555") >>

_draw_bottom_panel(self, state) ==
    Concat([k \in 1..Len(monster_order) |-> Slot(self, state, k - 1)])

(***************************************************************************)
(* The states render is given: MatchStates parse returns, built by the     *)
(* line handlers of parse from lines under the header of their section.    *)
(* Parsed gives the result of the handlers: the state after the last line, *)
(* or the exception of the first line that raises.                         *)
(***************************************************************************)
RECURSIVE Parsed(_, _, _)
Parsed(ds, k, ms) ==
    IF k > Len(ds) THEN Ok(ms)
    ELSE LET l == strip(LineText(ds[k]))
             r == CASE ds[k].k = "overall" -> ParseOverallLine(l, ms)
                    [] ds[k].k = "agg"     -> ParseAggregateLine(l, ms)
                    [] ds[k].k = "hero"    -> _parse_hero_line(l, ms)
                    [] ds[k].k = "tower"   -> _parse_tower_minion_line(l, ms, <<>>)
                    [] ds[k].k = "monster" -> ParseMonsterLine(l, ms)
         IN  CHOOSE out \in {IF v.exc = "" THEN Parsed(ds, k + 1, v.ms) ELSE v : v \in {r}} :
                 TRUE

\* 廉颇 of the player (blue), with gold, items and a buff
HeroA(coord) ==
    [k |-> "hero", tag |-> "ally3", vit |-> Vit(FALSE, <<>>, <<45>>, <<29>>), coord |-> coord,
     kda |-> <<2, 5, 1>>, ult |-> "absent", detail |-> TRUE]

\* 廉颇 once more (blue), under its own name
HeroA2(coord) ==
    [k |-> "hero", tag |-> "ally2", vit |-> Vit(FALSE, <<>>, <<>>, <<>>), coord |-> coord,
     kda |-> <<>>, ult |-> "early", detail |-> FALSE]

\* 妲己 (red): alive at a position, or dead with none
HeroB(coord) ==
    [k |-> "hero", tag |-> "enemy4",
     vit |-> IF coord = "none" THEN Vit(TRUE, <<12>>, <<>>, <<>>)
             ELSE Vit(FALSE, <<>>, <<45>>, <<30>>),
     coord |-> coord, kda |-> <<>>, ult |-> "absent", detail |-> FALSE]

\* 廉颇 on the other side (red)
HeroC(coord) ==
    [k |-> "hero", tag |-> "enemy2", vit |-> Vit(FALSE, <<>>, <<45>>, <<30>>), coord |-> coord,
     kda |-> <<>>, ult |-> "absent", detail |-> FALSE]

OverallOf(m, sec) == [k |-> "overall", stage |-> TRUE, clock |-> TRUE, m |-> m, s |-> sec]

KillsOf(blue, red) ==
    [k |-> "agg", clauses |-> << [kw |-> "blue_kills", form |-> "ok", v |-> blue],
                                [kw |-> "red_kills", form |-> "ok", v |-> red] >>]

TowersOf(segs) == [k |-> "tower", lane |-> "mid", segs |-> segs]

MonstersOf(segs) == [k |-> "monster", prefix |-> TRUE, segs |-> segs]

RenderTexts ==
    << <<>>,
      \* both heroes on one spot, with 暴君 under them
      << OverallOf(13, 4), KillsOf(3, 15), HeroA("ok"), HeroB("ok"),
         TowersOf(<<Seg("blue", 1, "ok2", 40, <<80>>, "ok")>>),
         MonstersOf(<< MSeg(2, "ok", TRUE, "exists", <<>>, <<87>>),
                       MSeg(1, "ok2", TRUE, "gone", <<29>>, <<>>) >>) >>,
      \* the heroes apart, 暴君 under the second
      << HeroA("ok"), HeroB("ok2"),
         MonstersOf(<< MSeg(2, "ok2", TRUE, "exists", <<>>, <<87>>),
                       MSeg(4, "ok", TRUE, "gone", <<>>, <<>>) >>) >>,
      \* the red hero listed first, dead and off the map
      << HeroB("none"), HeroA("ok"),
         TowersOf(<<Seg("red", 2, "ok", 40, <<>>, "ok2")>>) >>,
      \* one hero name twice
      << HeroA("ok"), HeroA2("ok2"), HeroB("ok2"),
         MonstersOf(<<MSeg(3, "ok", TRUE, "exists", <<>>, <<>>)>>) >>,
      \* one hero name on both sides, on one spot
      << HeroA("ok"), HeroC("ok") >>,
      \* 廉颇 listed a second time without a position, and 暴君 twice
      << HeroA("ok"), HeroB("ok"), HeroA2("none"),
         MonstersOf(<< MSeg(2, "ok", TRUE, "exists", <<>>, <<87>>),
                       MSeg(2, "ok2", TRUE, "exists", <<>>, <<>>) >>) >> >>

\* each state with the place of its text in RenderTexts
RenderStates == {<<n, Parsed(RenderTexts[n], 1, MatchState).ms>> : n \in DOMAIN RenderTexts}

AllAssets == Assets(TRUE, {1, 2}, {1, 2}, TRUE, TRUE, TRUE)

AssetChoices ==
    { NoAssets,
      AllAssets,
      Assets(TRUE, {}, {}, FALSE, TRUE, FALSE),          \* tables and font, no image
      Assets(TRUE, {1}, {1}, FALSE, FALSE, FALSE),       \* the icons of one hero and item
      Assets(TRUE, {}, {1, 2}, TRUE, FALSE, TRUE),       \* no hero icon
      Assets(FALSE, {1, 2}, {1, 2}, TRUE, TRUE, TRUE) }  \* the tables missing

(***************************************************************************)
(* Two render calls on one MatchRenderer.  A call takes one step per part  *)
(* of render; between two steps of a call the other call may run, as two   *)
(* threads sharing the instance do.                                        *)
(***************************************************************************)
Calls == 1..2

Call(state) == [state |-> state, pc |-> "idle", ops |-> <<>>, exc |-> ""]

\* the two calls are alike and either may run first, so of the pairs of states that
\* differ only in which call holds which, one is enough
RenderInit ==
    /\ ParserIdle
    /\ fn = <<>>
    /\ renderer \in {MatchRenderer(a, sf) : a \in AssetChoices, sf \in ScaleFactors}
    /\ \E s1, s2 \in RenderStates :
           /\ s1[1] <= s2[1]
           /\ calls = [c \in Calls |-> Call(IF c = 1 THEN s1[2] ELSE s2[2])]
    /\ overlapped = FALSE
    /\ batch = <<>>

InFlight(c) == calls[c].pc \notin {"idle", "done", "raised"}

\* call c at position at makes the operations ops and goes on to position to
Step(c, at, ops, to) ==
    /\ calls[c].pc = at
    /\ calls' = [calls EXCEPT ![c].ops = @ \o ops, ![c].pc = to]

\* render: the canvas, self.map_rect, _draw_map
Render(c) ==
    /\ Step(c, "idle", _draw_map(renderer, MapRect(renderer)[1], MapRect(renderer)[2]),
            "map_elements")
    /\ renderer' = [renderer EXCEPT !.map_rect = MapRect(renderer)]
    /\ overlapped' = (overlapped \/ \E d \in Calls \ {c} : InFlight(d))
    /\ UNCHANGED <<pvars, batch, fn>>

\* faulty variant: the objective positions of the call before are kept in the table
DrawTowersMonstersKeeping(c) ==
    LET kept == IF \E d \in Calls : calls[d].pc \in {"heroes", "side_panels", "top_bar",
                                                      "bottom_panel", "done", "raised"}
                THEN renderer.monster_map_coords ELSE <<>>
        marks == MonsterMarks(renderer, calls[c].state.monsters, 1,
                              [ops |-> <<>>, coords |-> kept])
    IN  /\ Step(c, "map_elements",
                TowerMarks(renderer, calls[c].state.towers) \o marks.ops, "heroes")
        /\ renderer' = [renderer EXCEPT !.monster_map_coords = marks.coords]
        /\ UNCHANGED <<pvars, batch, fn, overlapped>>

\* faulty variant: the objectives are drawn under the towers
DrawMonstersTowers(c) ==
    LET marks == MonsterMarks(renderer, calls[c].state.monsters, 1,
                              [ops |-> <<>>, coords |-> <<>>])
    IN  /\ Step(c, "map_elements",
                marks.ops \o TowerMarks(renderer, calls[c].state.towers), "heroes")
        /\ renderer' = [renderer EXCEPT !.monster_map_coords = marks.coords]
        /\ UNCHANGED <<pvars, batch, fn, overlapped>>

\* _draw_map_elements, first half: self.monster_map_coords = {}, towers, monsters
DrawTowersMonsters(c) ==
    LET marks == MonsterMarks(renderer, calls[c].state.monsters, 1,
                              [ops |-> <<>>, coords |-> <<>>])
    IN  /\ Step(c, "map_elements",
                TowerMarks(renderer, calls[c].state.towers) \o marks.ops, "heroes")
        /\ renderer' = [renderer EXCEPT !.monster_map_coords = marks.coords]
        /\ UNCHANGED <<pvars, batch, fn, overlapped>>

\* faulty variant: the hero positions of the call before are kept in the table
DrawHeroesMinionsKeeping(c) ==
    LET kept == IF \E d \in Calls : calls[d].pc \in {"side_panels", "top_bar", "bottom_panel",
                                                      "done", "raised"}
                THEN renderer.hero_map_coords ELSE <<>>
        marks == HeroMarks(renderer, calls[c].state.heroes, 1, [ops |-> <<>>, coords |-> kept])
    IN  /\ Step(c, "heroes",
                marks.ops \o MinionMarks(renderer, calls[c].state.minions), "side_panels")
        /\ renderer' = [renderer EXCEPT !.hero_map_coords = marks.coords]
        /\ UNCHANGED <<pvars, batch, fn, overlapped>>

\* _draw_map_elements, second half: self.hero_map_coords = {}, heroes, minions
DrawHeroesMinions(c) ==
    LET marks == HeroMarks(renderer, calls[c].state.heroes, 1, [ops |-> <<>>, coords |-> <<>>])
    IN  /\ Step(c, "heroes",
                marks.ops \o MinionMarks(renderer, calls[c].state.minions), "side_panels")
        /\ renderer' = [renderer EXCEPT !.hero_map_coords = marks.coords]
        /\ UNCHANGED <<pvars, batch, fn, overlapped>>

\* _draw_side_panels: an exception of a card leaves render
DrawSidePanels(c) ==
    LET r == _draw_side_panels(renderer, calls[c].state)
    IN  /\ calls[c].pc = "side_panels"
        /\ calls' = [calls EXCEPT ![c].ops = @ \o r.ops,
                                  ![c].state = r.state,
                                  ![c].exc = r.exc,
                                  ![c].pc = IF r.exc = "" THEN "top_bar" ELSE "raised"]
        /\ UNCHANGED <<pvars, batch, fn, renderer, overlapped>>

DrawTopBar(c) ==
    /\ Step(c, "top_bar", _draw_top_bar(renderer, calls[c].state), "bottom_panel")
    /\ UNCHANGED <<pvars, batch, fn, renderer, overlapped>>

\* _draw_bottom_panel; return img
DrawBottomPanel(c) ==
    /\ Step(c, "bottom_panel", _draw_bottom_panel(renderer, calls[c].state), "done")
    /\ UNCHANGED <<pvars, batch, fn, renderer, overlapped>>

RenderNext ==
    \E c \in Calls :
        \/ Render(c)
        \/ DrawTowersMonsters(c)
        \/ DrawHeroesMinions(c)
        \/ DrawSidePanels(c)
        \/ DrawTopBar(c)
        \/ DrawBottomPanel(c)

RenderSpec == RenderInit /\ [][RenderNext]_vars

(***************************************************************************)
(* Claims about render.                                                    *)
(***************************************************************************)
Finished(c) == calls[c].pc \in {"done", "raised"}

\* the hero's icon file resolves: its name is in heroes.json and the file is there
IconResolves(self, hero) == _get_hero_icon(self, hero.name) # None

\* C14: for every MatchState parse returns and every positive scale factor, render
\* returns an image without raising, whichever optional assets are present.
\* As stated this fails: a side card whose hero icon resolves reads hero.is_visible.
C14_RenderNeverRaises == \A c \in Calls : calls[c].pc # "raised" /\ calls[c].exc = ""

AfterHeroes(c) == calls[c].pc \in {"side_panels", "top_bar", "bottom_panel", "done", "raised"}

OpsOf(c) == {calls[c].ops[k] : k \in 1..Len(calls[c].ops)}

\* the placeholders drawn for what is missing, in the calls that got that far
Degrades(c) ==
    LET state == calls[c].state
        ops == calls[c].ops
        avatars == {k \in 1..Len(ops) : /\ ops[k].layer = "card" /\ ops[k].kind = "paste"
                                        /\ ops[k].width = s(renderer, 64)}
        resolving == {k \in 1..Len(state.heroes) : IconResolves(renderer, state.heroes[k])}
    IN  /\ ~renderer.assets_dir.metadata => renderer.hero_map = <<>> /\ renderer.item_map = <<>>
        /\ renderer.font_path = None =>
              \A o \in OpsOf(c) : o.kind = "text" => o.font.kind = "default"
        /\ ~renderer.assets_dir.map_image /\ calls[c].pc # "idle" =>
              /\ ops[1].kind = "rectangle"
              /\ \A k \in 2..7 : ops[k].kind = "line" /\ ops[k].layer = "map"
        /\ AfterHeroes(c) =>
              \A k \in 1..Len(state.heroes) :
                  state.heroes[k].position # None /\ ~IconResolves(renderer, state.heroes[k]) =>
                      LET p == _coord_transform(renderer, state.heroes[k].position[1],
                                                state.heroes[k].position[2])
                      IN  Disc("hero", p[1], p[2], s(renderer, 15), "gray", 0) \in OpsOf(c)
        /\ Cardinality(avatars) <= Cardinality(resolving)

\* something render falls back for is missing: the map image, a font, the tables, or
\* the icon of a hero of the state
SomethingMissing(c) ==
    \/ ~renderer.assets_dir.map_image
    \/ renderer.font_path = None
    \/ ~renderer.assets_dir.metadata
    \/ \E k \in 1..Len(calls[c].state.heroes) :
           ~IconResolves(renderer, calls[c].state.heroes[k])

\* the part of C15 that holds: every missing asset is replaced by its placeholder
PlaceholdersDrawn == \A c \in Calls : Degrades(c)

\* C15: a hero icon that does not resolve gives a gray circle on the map and a card
\* with no avatar, a missing map image the placeholder grid, a missing font the
\* default font, missing tables empty name maps; and in none of these cases does
\* render fail.  As stated this fails: with the map image or another hero's icon
\* missing, the card of a hero whose icon resolves still raises.
C15_DegradesNeverFails ==
    \A c \in Calls : Degrades(c) /\ (SomethingMissing(c) => calls[c].pc # "raised")

\* render(state) run from start to end with no other call in between, on a renderer
\* built as self was: the operations it makes and the exception that leaves it
render(self, state) ==
    LET laid == [self EXCEPT !.map_rect = MapRect(self)]
        monsters == MonsterMarks(laid, state.monsters, 1, [ops |-> <<>>, coords |-> <<>>])
        heroes == HeroMarks(laid, state.heroes, 1, [ops |-> <<>>, coords |-> <<>>])
        marked == [laid EXCEPT !.monster_map_coords = monsters.coords,
                               !.hero_map_coords = heroes.coords]
        panels == _draw_side_panels(marked, state)
        before == _draw_map(laid, laid.map_rect[1], laid.map_rect[2])
                  \o TowerMarks(laid, state.towers) \o monsters.ops
                  \o heroes.ops \o MinionMarks(laid, state.minions) \o panels.ops
    IN  IF panels.exc # "" THEN [ops |-> before, exc |-> panels.exc, self |-> marked]
        ELSE [ops |-> before \o _draw_top_bar(marked, state)
                      \o _draw_bottom_panel(marked, state),
              exc |-> "", self |-> marked]

\* what a render call on its own draws and raises
RenderAlone(self, state) ==
    LET r == render(self, state)
    IN  [ops |-> r.ops, exc |-> r.exc]

Connectors(ops) == SelectSeq(ops, LAMBDA o : o.kind = "dashed")

\* C16: two render calls on one MatchRenderer, interleaved at any point, each make
\* the operations (connectors included) they make when run alone.
\* As stated this fails: the calls share self.hero_map_coords and
\* self.monster_map_coords.
C16_InterleavingInvisible ==
    \A c \in Calls :
        Finished(c) => /\ calls[c].ops = RenderAlone(renderer, calls[c].state).ops
                       /\ calls[c].exc = RenderAlone(renderer, calls[c].state).exc

\* the same for calls that were not interleaved
AloneWhenSequential == overlapped \/ C16_InterleavingInvisible

\* an interleaved call that lost a connector it draws alone
LostConnector ==
    \E c \in Calls :
        /\ calls[c].pc = "done"
        /\ Connectors(calls[c].ops) = <<>>
        /\ Connectors(RenderAlone(renderer, calls[c].state).ops) # <<>>

\* C17: render never changes the MatchState it is given: no step of a call, whether
\* the call returns or raises, changes a field, a record or the order or length of a
\* collection of its state.
C17_StateUnchanged == [][\A c \in Calls : calls'[c].state = calls[c].state]_vars

\* a call that returned for a state listing a red hero before a blue one, with a tower
C17_Witness ==
    \E c \in Calls :
        /\ calls[c].pc = "done"
        /\ Len(calls[c].state.heroes) = 2
        /\ calls[c].state.heroes[1].team = "red"
        /\ calls[c].state.heroes[2].team = "blue"
        /\ calls[c].state.towers # <<>>

\* C18: render is deterministic and idempotent: two calls made one after the other
\* with the same MatchState, on one renderer or on two built from the same assets,
\* make the same sequence of draw operations, and what a call draws does not depend
\* on a call made before it.
C18_RenderDeterministic ==
    ~overlapped =>
        /\ \A c \in Calls :
               Finished(c) => /\ calls[c].ops = RenderAlone(renderer, calls[c].state).ops
                              /\ calls[c].exc = RenderAlone(renderer, calls[c].state).exc
        /\ (\A c \in Calls : Finished(c)) /\ calls[1].state = calls[2].state
               => calls[1].ops = calls[2].ops /\ calls[1].exc = calls[2].exc

\* two calls made one after the other with the same state, both returned, each with
\* connector lines
C18_Witness ==
    /\ ~overlapped
    /\ \A c \in Calls : calls[c].pc = "done" /\ Connectors(calls[c].ops) # <<>>
    /\ calls[1].state = calls[2].state

\* the layers in the order render and _draw_map_elements draw them
LayerOrder == <<"map", "tower", "monster", "hero", "minion", "card", "top", "bottom">>

LayerRank(layer) == CHOOSE n \in 1..Len(LayerOrder) : LayerOrder[n] = layer

IconAt(self, state, k) ==
    _coord_transform(self, state.heroes[k].position[1], state.heroes[k].position[2])

\* the k-th hero is on the map and the icon of another hero record collides with its icon
IconCollides(self, state, k) ==
    /\ state.heroes[k].position # None
    /\ \E j \in (1..Len(state.heroes)) \ {k} :
           /\ state.heroes[j].position # None
           /\ _check_overlap(IconAt(self, state, k), IconAt(self, state, j), s(self, 24))

\* the heroes in the order of their cards: the blue ones, then the red ones
CardOrder(state) ==
    LET all == [k \in 1..Len(state.heroes) |-> k]
    IN  SelectSeq(all, LAMBDA k : IsBlue(state.heroes[k]))
        \o SelectSeq(all, LAMBDA k : IsRed(state.heroes[k]))

\* where the card connectors of a call end on the map, in the order drawn
ConnectorEnds(ops) ==
    LET cs == SelectSeq(ops, LAMBDA o : o.kind = "dashed" /\ o.layer = "card")
    IN  [n \in 1..Len(cs) |-> <<cs[n].at[3], cs[n].at[4]>>]

\* where they end by the rule: one for each card whose hero's icon collides
RuleEnds(self, state) ==
    LET with == SelectSeq(CardOrder(state), LAMBDA k : IconCollides(self, state, k))
    IN  [n \in 1..Len(with) |-> IconAt(self, state, with[n])]

\* a call that ran without another call in between and drew every card
DrewAllCards(c) == ~overlapped /\ calls[c].pc \in {"top_bar", "bottom_panel", "done"}

\* C22: a side card gets its dashed connector, ending at its hero's on-map icon, iff
\* the hero has a map position and the icon of at least one other Hero record of the
\* state collides with it (distance < 2 * s(24)); this for every pair of distinct
\* Hero records, two of one hero name on opposite sides included.
\* As stated this fails: positions are stored and compared by hero name.
C22_ConnectorRule ==
    \A c \in Calls :
        DrewAllCards(c) => ConnectorEnds(calls[c].ops) = RuleEnds(renderer, calls[c].state)

\* the rule does hold of the states whose heroes all have different names
C22_DistinctNames ==
    \A c \in Calls :
        /\ DrewAllCards(c)
        /\ \A j, k \in 1..Len(calls[c].state.heroes) :
               j # k => calls[c].state.heroes[j].name # calls[c].state.heroes[k].name
        => ConnectorEnds(calls[c].ops) = RuleEnds(renderer, calls[c].state)

\* two heroes of one name on opposite sides on one spot, and no connector drawn
C22_SameNameNoConnector ==
    \E c \in Calls :
        /\ DrewAllCards(c)
        /\ Len(calls[c].state.heroes) = 2
        /\ calls[c].state.heroes[1].name = calls[c].state.heroes[2].name
        /\ calls[c].state.heroes[1].team # calls[c].state.heroes[2].team
        /\ IconCollides(renderer, calls[c].state, 1)
        /\ ConnectorEnds(calls[c].ops) = <<>>

\* the index of the last record of the sequence that carries the name
LastNamed(records, name) ==
    CHOOSE k \in 1..Len(records) :
        /\ records[k].name = name
        /\ \A j \in (k + 1)..Len(records) : records[j].name # name

\* the names the seven slots of the bottom strip stand for, in the order of monster_order
SlotNames == <<Kw.WoLan, Kw.WoHong, Kw.ZhuZai, Kw.FengBao, Kw.BaoJun, Kw.DiHong, Kw.DiLan>>

\* the status text of the slot of index n (from 0) among the operations of a call
SlotText(self, ops, n) ==
    LET item_width == self.width \div Len(monster_order)
        at == << n * item_width + item_width \div 2,
                 (self.height - s(self, 180)) + s(self, 180) \div 2 + s(self, 45) >>
        found == SelectSeq(ops, LAMBDA o : o.layer = "bottom" /\ o.kind = "text" /\ o.at = at)
    IN  found[1].text

\* call c returned and no other call has begun: the tables are those c wrote
ReturnedAlone(c) ==
    /\ calls[c].pc = "done"
    /\ \A d \in Calls \ {c} : calls[d].pc = "idle"

\* the side card's lookup of a hero name finds the position of the last hero of the name
HeroLookupLast(c) ==
    LET heroes == calls[c].state.heroes
    IN  \A k \in 1..Len(heroes) :
            LET last == LastNamed(heroes, heroes[k].name)
            IN  IF heroes[last].position = None
                THEN heroes[k].name \notin DOMAIN renderer.hero_map_coords
                ELSE /\ heroes[k].name \in DOMAIN renderer.hero_map_coords
                     /\ renderer.hero_map_coords[heroes[k].name]
                            = IconAt(renderer, calls[c].state, last)

\* the lookup of an objective name finds the position of the last objective of the name
PositionLookupLast(c) ==
    LET monsters == calls[c].state.monsters
    IN  \A k \in 1..Len(monsters) :
            LET last == LastNamed(monsters, monsters[k].name)
            IN  monsters[last].exists =>
                    /\ monsters[k].name \in DOMAIN renderer.monster_map_coords
                    /\ renderer.monster_map_coords[monsters[k].name]
                           = _coord_transform(renderer, monsters[last].position[1],
                                              monsters[last].position[2])

\* a slot's lookup of its name finds the status of the last objective of the name
SlotLookupLast(c) ==
    LET monsters == calls[c].state.monsters
    IN  \A n \in 1..Len(SlotNames) :
            (\E k \in 1..Len(monsters) : monsters[k].name = SlotNames[n])
            => SlotText(renderer, calls[c].ops, n - 1)
                   = StatusText(monsters[LastNamed(monsters, SlotNames[n])])

\* C23: when several heroes share a hero name, or several objectives an objective
\* name, every lookup by that name made while rendering (side card to on-map hero
\* position, bottom slot to objective status, bottom slot to on-map objective
\* position) finds the record that comes last in the state.
\* As stated this fails: a slot's lookup finds no record at all, and a hero name's
\* lookup finds the last record that has a position.
C23_LastWriteWins ==
    \A c \in Calls :
        ReturnedAlone(c) => HeroLookupLast(c) /\ PositionLookupLast(c) /\ SlotLookupLast(c)

\* the part that holds: the position of an objective name is that of its last record
C23_PositionsLast == \A c \in Calls : ReturnedAlone(c) => PositionLookupLast(c)

\* of heroes too, in the states where the last record of each name has a position
C23_HeroesLast ==
    \A c \in Calls :
        /\ ReturnedAlone(c)
        /\ \A k \in 1..Len(calls[c].state.heroes) :
               calls[c].state.heroes[
                   LastNamed(calls[c].state.heroes, calls[c].state.heroes[k].name)
               ].position # None
        => HeroLookupLast(c)

\* a returned call whose state has 暴君 twice, the slot of 暴君 showing neither
C23_SlotFindsNone ==
    \E c \in Calls :
        /\ ReturnedAlone(c)
        /\ Len(SelectSeq(calls[c].state.monsters, LAMBDA m : m.name = Kw.BaoJun)) = 2
        /\ SlotText(renderer, calls[c].ops, 4) = Lbl.WeiZhi

\* a returned call whose last 廉颇 has no position, its card ending on the first's
C23_EarlierHeroFound ==
    \E c \in Calls :
        /\ ReturnedAlone(c)
        /\ ~HeroLookupLast(c)
        /\ Connectors(calls[c].ops) # <<>>

\* the icons of the bottom strip among the operations of a call, in the order drawn
SlotIcons(ops) == SelectSeq(ops, LAMBDA o : o.layer = "bottom" /\ o.kind = "ellipse")

\* the labels of the bottom strip, in the order drawn: the text under each icon
SlotLabels(self, ops) ==
    LET y == (self.height - s(self, 180)) + s(self, 180) \div 2 + s(self, 20)
        found == SelectSeq(ops, LAMBDA o : o.layer = "bottom" /\ o.kind = "text"
                                            /\ o.at[2] = y)
    IN  [n \in 1..Len(found) |-> found[n].text]

\* seven slots, from left to right, labelled in the order of monster_order
SevenSlots(c) ==
    /\ Len(SlotIcons(calls[c].ops)) = 7
    /\ \A n \in 1..6 : SlotIcons(calls[c].ops)[n].at[1] < SlotIcons(calls[c].ops)[n + 1].at[1]
    /\ SlotLabels(renderer, calls[c].ops)
           = [n \in 1..7 |-> monster_order[n].label]

\* C24: a render call that returns has drawn exactly seven slots in the fixed order
\* ally blue buff, ally red buff, 主宰, 风暴龙王, 暴君, enemy red buff, enemy blue buff;
\* a slot whose objective name is in the state parse returned shows that objective's
\* hp text if it exists and else its countdown or does-not-exist text; a slot shows
\* the unknown placeholder only if no objective of its name is in the state.
\* As stated this fails: every slot shows the unknown placeholder.
C24_BottomStrip ==
    \A c \in Calls :
        calls[c].pc = "done" =>
            /\ SevenSlots(c)
            /\ \A n \in 1..Len(SlotNames) :
                   LET named == SelectSeq(calls[c].state.monsters,
                                          LAMBDA m : m.name = SlotNames[n])
                   IN  IF named = <<>>
                       THEN SlotText(renderer, calls[c].ops, n - 1) = Lbl.WeiZhi
                       ELSE \E k \in 1..Len(named) :
                                SlotText(renderer, calls[c].ops, n - 1) = StatusText(named[k])

\* the part that holds: seven slots in the fixed order, whatever the state
C24_SevenSlotsInOrder == \A c \in Calls : calls[c].pc = "done" => SevenSlots(c)

\* a returned call whose state has 主宰 gone with a countdown and 暴君 alive, with all
\* seven slots showing the unknown placeholder
C24_AllUnknown ==
    \E c \in Calls :
        /\ calls[c].pc = "done"
        /\ \E k \in 1..Len(calls[c].state.monsters) :
               /\ calls[c].state.monsters[k].name = Kw.ZhuZai
               /\ ~calls[c].state.monsters[k].exists
               /\ calls[c].state.monsters[k].respawn_time # None
        /\ \E k \in 1..Len(calls[c].state.monsters) :
               calls[c].state.monsters[k].name = Kw.BaoJun /\ calls[c].state.monsters[k].exists
        /\ \A n \in 0..6 : SlotText(renderer, calls[c].ops, n) = Lbl.WeiZhi

(***************************************************************************)
(* process_batch (src/src/batch.py): one parser and one renderer, a loop   *)
(* over the lines of the input file, one step of the model per line.       *)
(***************************************************************************)

\* JSON values: None (null, or what data.get gives for a missing key), strings, numbers
JsonNull == [type |-> "null", s |-> <<>>, n |-> 0]
JsonString(str) == [type |-> "string", s |-> str, n |-> 0]
JsonNumber(n) == [type |-> "number", s |-> <<>>, n |-> n]

\* bool(value): None, "" and 0 are false
Truthy(value) ==
    CASE value.type = "null"   -> FALSE
      [] value.type = "string" -> value.s # <<>>
      [] value.type = "number" -> value.n # 0

\* a or b
Either(a, b) == IF Truthy(a) THEN a ELSE b

\* f"{match_id}.png"
PngName(match_id) ==
    (IF match_id.type = "number" THEN Dec(match_id.n) ELSE match_id.s) \o <<".png">>

\* the texts the lines carry, as line descriptions: a report with every kind of line,
\* a short one, one whose parse raises, one whose render raises (the icon of 廉颇
\* resolves)
TextReport ==
    << NoiseLine, BlankLine, HeaderLine(Sec.ZhengTi), OverallOf(13, 4),
       HeaderLine(Sec.ZongTi), KillsOf(3, 15), HeaderLine(Sec.KeJian), HeroB("ok"),
       HeaderLine(Sec.TaBing), TowersOf(<<Seg("blue", 1, "ok2", 40, <<80>>, "ok")>>),
       HeaderLine(Sec.YeGuai), MonstersOf(<<MSeg(2, "ok", TRUE, "exists", <<>>, <<87>>)>>) >>
TextDead == <<HeaderLine(Sec.ZhenWang), HeroB("none")>>
TextBadCoord == <<HeaderLine(Sec.KeJian), HeroB("bad")>>
TextLianPo == <<HeaderLine(Sec.WoFangYX), HeroA("ok")>>

\* a line of the input file: blank, not JSON, JSON that is no object, or an object
\* with its "id", "content" and "match_info" (JsonNull for a key it lacks)
BlankLineOfFile == [kind |-> "blank", id |-> JsonNull, content |-> JsonNull,
                    match_info |-> JsonNull]
NotJson == [BlankLineOfFile EXCEPT !.kind = "invalid"]
JsonArray == [BlankLineOfFile EXCEPT !.kind = "array"]
Object(id, content, match_info) ==
    [kind |-> "object", id |-> id, content |-> content, match_info |-> match_info]

BatchLines ==
    { BlankLineOfFile, NotJson, JsonArray,
      Object(JsonString(<<"a">>), JsonString(TextReport), JsonNull),
      Object(JsonString(<<"b">>), JsonNull, JsonString(TextDead)),
      Object(JsonNull, JsonString(TextDead), JsonNull),
      Object(JsonString(<<"a">>), JsonString(<<>>), JsonNull),
      Object(JsonNumber(0), JsonString(TextDead), JsonNull),
      Object(JsonNumber(7), JsonString(TextBadCoord), JsonNull),
      Object(JsonString(<<"a">>), JsonString(TextLianPo), JsonNull) }

MaxBatchLines == 2

BatchFiles == UNION {[1..n -> BatchLines] : n \in 0..MaxBatchLines}

\* the renderer of process_batch: the assets hold the tables and the icon of 廉颇.
\* Its scale factor is 0.30 here (process_batch takes the default, 1.0): the sizes
\* drawn differ, the steps taken do not.
BatchAssets == Assets(TRUE, {1}, {1}, FALSE, FALSE, FALSE)

\* no render call in progress
NoCall == [Call(MatchState) EXCEPT !.pc = "done"]

\* count = 0 and the loop before the first line; pc is "loop" between two lines,
\* "parsing" in parser.parse, "rendering" in renderer.render, "done" after the loop
BatchInit ==
    /\ ParserIdle
    /\ fn = <<>>
    /\ calls = [c \in Calls |-> NoCall]
    /\ overlapped = FALSE
    /\ renderer = MatchRenderer(BatchAssets, 30)
    /\ batch \in {[lines |-> f, at |-> 1, count |-> 0, files |-> <<>>, printed |-> <<>>,
                   trace |-> <<>>, pc |-> "loop"] : f \in BatchFiles}

\* the loop is at a line of the file
AtBatchLine == batch # <<>> /\ batch.pc = "loop" /\ batch.at <= Len(batch.lines)

BatchLine == batch.lines[batch.at]

\* the loop goes on to the next line, having printed msgs
NextLine(msgs, outcome) ==
    batch' = [batch EXCEPT !.at = @ + 1, !.printed = @ \o msgs, !.pc = "loop",
                           !.trace = Append(@, outcome)]

\* if not line.strip(): continue
BatchBlank ==
    /\ AtBatchLine
    /\ BatchLine.kind = "blank"
    /\ NextLine(<<>>, "blank")
    /\ UNCHANGED <<pvars, renderer, calls, overlapped, fn>>

\* except json.JSONDecodeError
BatchInvalidJson ==
    /\ AtBatchLine
    /\ BatchLine.kind = "invalid"
    /\ NextLine(<< <<"Skipping invalid JSON line">> >>, "invalid")
    /\ UNCHANGED <<pvars, renderer, calls, overlapped, fn>>

\* data.get of a value that is no object: AttributeError, caught by except Exception
BatchNotObject ==
    /\ AtBatchLine
    /\ BatchLine.kind = "array"
    /\ NextLine(<< <<"Error processing line", "AttributeError">> >>, "error")
    /\ UNCHANGED <<pvars, renderer, calls, overlapped, fn>>

\* match_id and content of an object
match_id == BatchLine.id
content == Either(BatchLine.content, BatchLine.match_info)

\* if not match_id or not content: continue
BatchMissing ==
    /\ AtBatchLine
    /\ BatchLine.kind = "object"
    /\ ~Truthy(match_id) \/ ~Truthy(content)
    /\ NextLine(<< <<"Skipping line: missing id or content">> >>, "missing")
    /\ UNCHANGED <<pvars, renderer, calls, overlapped, fn>>

\* match_state = parser.parse(content): the call begins
BatchParse ==
    /\ AtBatchLine
    /\ BatchLine.kind = "object"
    /\ Truthy(match_id) /\ Truthy(content)
    /\ batch' = [batch EXCEPT !.pc = "parsing",
                              !.printed = Append(@, <<"Rendering match">> \o PngName(match_id))]
    /\ input' = content.s
    /\ pc' = "first"
    /\ i' = 0
    /\ current_section' = NoSection
    /\ static_towers' = <<>>
    /\ match_state' = MatchState
    /\ exc' = ""
    /\ UNCHANGED <<renderer, calls, overlapped, fn>>

\* img = renderer.render(match_state): parse returned, the call begins
BatchRender ==
    /\ batch # <<>>
    /\ batch.pc = "parsing"
    /\ pc = "done"
    /\ batch' = [batch EXCEPT !.pc = "rendering"]
    /\ calls' = [calls EXCEPT ![1] = Call(match_state)]
    /\ UNCHANGED <<pvars, renderer, overlapped, fn>>

\* img.save(out_path); count += 1
BatchSave ==
    /\ batch # <<>>
    /\ batch.pc = "rendering"
    /\ calls[1].pc = "done"
    /\ batch' = [batch EXCEPT
                   !.pc = "loop",
                   !.at = @ + 1,
                   !.count = @ + 1,
                   !.files = Store(@, PngName(match_id), calls[1].ops),
                   !.printed = Append(@, <<"Saved to">> \o PngName(match_id)),
                   !.trace = Append(@, "saved")]
    /\ UNCHANGED <<pvars, renderer, calls, overlapped, fn>>

\* except Exception: parse or render raised
BatchError ==
    /\ batch # <<>>
    /\ \/ /\ batch.pc = "parsing"
          /\ pc = "raised"
          /\ NextLine(<< <<"Error processing line", exc>> >>, "error")
       \/ /\ batch.pc = "rendering"
          /\ calls[1].pc = "raised"
          /\ NextLine(<< <<"Error processing line", calls[1].exc>> >>, "error")
    /\ UNCHANGED <<pvars, renderer, calls, overlapped, fn>>

\* the file is exhausted: "Batch processing complete. {count} images generated."
BatchComplete ==
    /\ batch # <<>>
    /\ batch.pc = "loop"
    /\ batch.at > Len(batch.lines)
    /\ batch' = [batch EXCEPT !.pc = "done",
                              !.printed = Append(@, <<"Batch processing complete">>
                                                    \o Dec(batch.count))]
    /\ UNCHANGED <<pvars, renderer, calls, overlapped, fn>>

\* the steps of process_batch, of the parse call and of the render call it makes
BatchNext ==
    \/ BatchBlank
    \/ BatchInvalidJson
    \/ BatchNotObject
    \/ BatchMissing
    \/ BatchParse
    \/ Next
    \/ BatchRender
    \/ RenderNext
    \/ BatchSave
    \/ BatchError
    \/ BatchComplete

BatchSpec == BatchInit /\ [][BatchNext]_vars

\* the line carries an identifier, and content under one of the two keys
HasIdentifier(l) == l.kind = "object" /\ l.id.type # "null"
HasContent(l) == l.kind = "object" /\ (l.content.type # "null" \/ l.match_info.type # "null")

\* the names of the images written for the first n lines, in the order written
RECURSIVE Written(_)
Written(n) ==
    IF n = 0 THEN <<>>
    ELSE Written(n - 1) \o (IF batch.trace[n] = "saved"
                            THEN <<PngName(batch.lines[n].id)>> ELSE <<>>)

\* C25: whatever the lines of the input, a line that is blank, is invalid JSON, lacks
\* the identifier, lacks both content keys, or whose parse or render raises, gives no
\* image and does not stop the run: every later line is processed; every line with an
\* identifier and content that renders without raising writes one image named by its
\* identifier; the final count is the number of images written.
\* As stated this fails: a line whose identifier is 0, or whose content is the empty
\* string, is skipped as if it had none.
C25_SkipAndContinue ==
    batch # <<>> =>
        /\ \A k \in 1..Len(batch.trace) :
               LET l == batch.lines[k]
               IN  /\ (l.kind # "object" \/ ~HasIdentifier(l) \/ ~HasContent(l)
                       \/ batch.trace[k] = "error")
                          => batch.trace[k] # "saved"
                   /\ (HasIdentifier(l) /\ HasContent(l) /\ batch.trace[k] # "error")
                          => /\ batch.trace[k] = "saved"
                             /\ PngName(l.id) \in DOMAIN batch.files
        /\ batch.pc = "done" =>
               /\ Len(batch.trace) = Len(batch.lines)
               /\ batch.count = Len(Written(Len(batch.lines)))
               /\ DOMAIN batch.files
                      = {Written(Len(batch.lines))[n] : n \in 1..batch.count}

\* the same with "has an identifier" and "has content" read as the code tests them:
\* the identifier is not None, 0 or "", the content not None or ""; this holds
C25_TruthyReading ==
    batch # <<>> =>
        /\ \A k \in 1..Len(batch.trace) :
               LET l == batch.lines[k]
                   usable == l.kind = "object" /\ Truthy(l.id)
                             /\ Truthy(Either(l.content, l.match_info))
               IN  /\ (~usable \/ batch.trace[k] = "error") => batch.trace[k] # "saved"
                   /\ (usable /\ batch.trace[k] # "error")
                          => /\ batch.trace[k] = "saved"
                             /\ PngName(l.id) \in DOMAIN batch.files
        /\ batch.pc = "done" =>
               /\ Len(batch.trace) = Len(batch.lines)
               /\ batch.count = Len(Written(Len(batch.lines)))
               /\ DOMAIN batch.files
                      = {Written(Len(batch.lines))[n] : n \in 1..batch.count}

\* a finished run whose first line raised and whose second line was saved
C25_ContinuesAfterError ==
    /\ batch # <<>>
    /\ batch.pc = "done"
    /\ batch.trace = <<"error", "saved">>
    /\ batch.count = 1

\* a finished run that skipped a line with identifier 0 and saved a line with the same text
C25_ZeroIdSkipped ==
    /\ batch # <<>>
    /\ batch.pc = "done"
    /\ \E k \in 1..Len(batch.lines) :
           /\ batch.lines[k].id = JsonNumber(0)
           /\ batch.trace[k] = "missing"
    /\ \E k \in 1..Len(batch.lines) :
           /\ batch.lines[k].match_info = JsonString(TextDead)
           /\ batch.trace[k] = "saved"

\* C26: in the main pass a line that is just [name] makes name the active section, and
\* any other line that starts with '[' resets the active section to none, so that the
\* line itself is not read under the section that was active before it.
\* As stated this fails: only the pre-pass resets; the main pass reads such a line
\* under the section that is active and leaves the section as it is.
C26_SectionTracking ==
    [][(AtLine /\ line # <<>>) =>
          IF IsHeader(line)
          THEN current_section' = Slice(line, 2, Len(line) - 1)
          ELSE IF StartsWith(line, <<"[">>)
          THEN current_section' = NoSection /\ match_state' = match_state
          ELSE current_section' = current_section]_vars

\* what the main pass does: a [name] line switches, every other line leaves the
\* active section alone; this holds
C26_OnlyHeadersSwitch ==
    [][(AtLine /\ line # <<>>) =>
          IF IsHeader(line)
          THEN current_section' = Slice(line, 2, Len(line) - 1) /\ match_state' = match_state
          ELSE current_section' = current_section]_vars

\* parse returned, the second line being '[总体态势] ...' with a clock after it, read
\* under [整体情况]: the clock is in the state
C26_TrailedLineRead ==
    /\ pc = "done"
    /\ Len(input) = 2
    /\ input[1] = HeaderLine(Sec.ZhengTi)
    /\ input[2].k = "header" /\ input[2].trail # <<>>
    /\ match_state.time_str # MatchState.time_str

\* the known names the text of a segment contains, as places in known_monsters
NamesIn(text) == {k \in DOMAIN known_monsters : Contains(text, known_monsters[k])}

\* C27: every objective record parse returns has one of the seven known names; a
\* segment yields at most one record; and a segment that contains several known names
\* yields the one that comes first in the list, not the one that comes first in it.
C27_KnownNames ==
    Returned =>
        /\ \A n \in 1..Len(match_state.monsters) :
               LET m == match_state.monsters[n]
               IN  /\ \E k \in DOMAIN known_monsters : m.name = known_monsters[k]
                   /\ \E k \in 1..Len(StatedMonsters) :
                          m.description = StatedMonsters[k].text
                   /\ \A k \in NamesIn(m.description) :
                          \E first \in 1..k : m.name = known_monsters[first]
        /\ \A k \in 1..Len(StatedMonsters) :
               Cardinality({n \in 1..Len(match_state.monsters) :
                               match_state.monsters[n].description = StatedMonsters[k].text})
                   <= Cardinality({j \in 1..Len(StatedMonsters) :
                                      StatedMonsters[j].text = StatedMonsters[k].text})

\* C27 witness: a returned line whose segment has 暴君 written before 主宰, and the one
\* record made of it is named 主宰
C27_Witness ==
    /\ Returned
    /\ Len(StatedMonsters) = 1
    /\ find(StatedMonsters[1].text, Kw.BaoJun) # 0
    /\ find(StatedMonsters[1].text, Kw.BaoJun) < find(StatedMonsters[1].text, Kw.ZhuZai)
    /\ Len(match_state.monsters) = 1
    /\ match_state.monsters[1].name = Kw.ZhuZai

\* the pre-pass stored a position for a tier behind the frontier of the n-th stated
\* tower: what the disabled back-fill would have added
InnerTierKnown(n) ==
    LET g == StatedTowers[n]
    IN  \E t \in (g.seg.target + 1)..Len(towers_map) :
            <<g.seg.owner, LaneText(g.lane), towers_map[t]>> \in DOMAIN static_towers

\* C28: back-fill stays disabled.  No Tower record takes its position or hp from the
\* pre-pass over [地图信息]: the towers are those of the segments of the tower section,
\* no more of them than segments; and what the lines of [地图信息] hold makes no
\* difference to what parse returns.
\* As stated this fails because of C1: a line of [地图信息] with a run such as "1-" for
\* a coordinate raises in the pre-pass, and parse returns nothing.
C28_BackfillDisabled ==
    /\ ~(pc = "raised" /\ i = 1)
    /\ Returned =>
           /\ Len(match_state.towers) <= Len(StatedTowerSegs)
           /\ match_state.towers
                  = [n \in 1..Len(StatedTowers) |-> ExpectedTower(StatedTowers[n])]

\* whenever parse returns, the towers are those the segments state, whatever the
\* pre-pass stored; this holds
C28_TowersAsStated ==
    Returned =>
        /\ Len(match_state.towers) <= Len(StatedTowerSegs)
        /\ \A n \in 1..Len(match_state.towers) :
               /\ match_state.towers[n].position = CoordValue(StatedTowers[n].seg.coord)
               /\ match_state.towers[n].hp_percent = StatedTowers[n].seg.hp
        /\ Len(match_state.towers) = Len(StatedTowers)

\* parse returned one tower, the pre-pass having stored the position of a tier behind it
C28_NotBackfilled ==
    /\ Returned
    /\ static_towers # <<>>
    /\ Len(StatedTowers) = 1
    /\ InnerTierKnown(1)
    /\ Len(match_state.towers) = 1

\* the pre-pass raised on a line of [地图信息]
C28_PrepassRaised ==
    /\ pc = "raised"
    /\ i = 1
    /\ \E j \in 1..Len(input) : input[j].k = "map" /\ ~input[j].good

\* the records of one side, and the stated hero lines of one side
HeroesOf(team) == SelectSeq(match_state.heroes, LAMBDA h : h.team = team)
StatedOf(team) ==
    SelectSeq(StatedHeroes,
              LAMBDA d : (IF TagTokens(d.tag)[1] = Kw.WoFang THEN "blue" ELSE "red") = team)

\* C29: parse appends one Hero record for every line that starts with '<' and carries
\* a well-formed tag inside one of the five hero sections, in the order of the text and
\* without merging: there are as many records as such lines, a hero listed in two
\* sections is there twice, and a side may hold more than five.
C29_OneRecordPerLine ==
    Returned =>
        /\ Len(match_state.heroes) = Len(StatedHeroes)
        /\ \A n \in 1..Len(StatedHeroes) :
               LET tokens == TagTokens(StatedHeroes[n].tag)
               IN  /\ match_state.heroes[n].name = tokens[Len(tokens)]
                   /\ match_state.heroes[n].is_dead = StatedHeroes[n].vit.dead
        /\ \A team \in {"blue", "red"} : Len(HeroesOf(team)) = Len(StatedOf(team))

\* C29 witness: parse returned six records of one side, all of one hero: five from its
\* status section and the sixth, dead, from the dead-heroes section
C29_Witness ==
    /\ Returned
    /\ Len(HeroesOf("blue")) = 6
    /\ \A n \in 1..6 : match_state.heroes[n].name = NameLianPo
    /\ ~match_state.heroes[1].is_dead
    /\ match_state.heroes[6].is_dead
    /\ SectionBefore(input, 2) = Sec.WoFangYX
    /\ SectionBefore(input, Len(input)) = Sec.ZhenWang

\* the tables a call writes for its state, starting from empty ones
HeroTableOf(state) ==
    HeroMarks(renderer, state.heroes, 1, [ops |-> <<>>, coords |-> <<>>]).coords
MonsterTableOf(state) ==
    MonsterMarks(renderer, state.monsters, 1, [ops |-> <<>>, coords |-> <<>>]).coords

\* C30: in render calls made one after another on one MatchRenderer, the tables of
\* on-map positions a call reads hold only what that call wrote: the hero table, when
\* the cards are about to read it, and the objective table, when the bottom strip is
\* about to read it, are the tables of the call's own state, whatever was rendered
\* before.
C30_TablesFresh ==
    ~overlapped =>
        \A c \in Calls :
            /\ calls[c].pc = "side_panels"
                   => renderer.hero_map_coords = HeroTableOf(calls[c].state)
            /\ calls[c].pc \in {"heroes", "side_panels", "top_bar", "bottom_panel"}
                   => renderer.monster_map_coords = MonsterTableOf(calls[c].state)

\* C30 witness: the second of two calls made one after the other is about to draw its
\* bottom strip; the call before it wrote positions, of a hero and of an objective,
\* that are not in the tables now
C30_Witness ==
    /\ ~overlapped
    /\ \E c \in Calls :
           /\ calls[c].pc = "bottom_panel"
           /\ \E d \in Calls \ {c} :
                  /\ calls[d].pc = "done"
                  /\ \E name \in DOMAIN HeroTableOf(calls[d].state) :
                         name \notin DOMAIN renderer.hero_map_coords
                  /\ \E name \in DOMAIN MonsterTableOf(calls[d].state) :
                         name \notin DOMAIN renderer.monster_map_coords

====
